---- MODULE Spec2Model ----
(***************************************************************************)
(* A model of FerretDB/wire: the OP_MSG / OP_QUERY / OP_REPLY codecs and   *)
(* the message header (package wire), the BSON document codec and the      *)
(* Document / Array containers (package wirebson), and the request/response *)
(* correlation of the client (package wireclient).                          *)
(*                                                                          *)
(* Byte slices are sequences of numbers 0..255.  Go's b[lo:hi] is           *)
(* Sl(b, lo, hi), b[lo:] is From(b, lo) and b[i] is b[i + 1].               *)
(***************************************************************************)
EXTENDS Integers, Sequences, FiniteSets, TLC

VARIABLES
    stream,     \* wire: the bytes offered to ReadMessage
    Debug,      \* wire: the package-level Debug toggle
    pc,         \* wire: position of the read / inspect / write scenario
    rd,         \* wire: what ReadMessage returned
    acc,        \* wire: outcome of the last accessor called on the OpMsg
    out,        \* wire: what WriteMessage emitted
    meas,       \* wire: Size() and MarshalBinary() of the message body
    parse,      \* wire: the locals of OpMsg.UnmarshalBinaryNocopy, loop by loop
    raw,        \* wirebson: the bytes handed to RawDocument.Decode / DecodeDeep
    dec,        \* wirebson: result of the decode
    enc,        \* wirebson: result of Encode on the decoded document
    sz,         \* wirebson: a decoded value, its Size and its encoding
    found,      \* wirebson: what FindRaw returned on the bytes
    adec,       \* wirebson: result of RawArray.Decode / DecodeDeep on the bytes
    cmp,        \* wirebson: the two arguments of Equal and what it returned
    doc,        \* wirebson: a Document, [fields, frozen]
    arr,        \* wirebson: an Array, [elements, frozen]
    last,       \* wirebson: the last container call and how it ended
    hist,       \* wirebson: container bookkeeping (fields when first frozen, origin)
    conn,       \* wireclient: the process-wide counter and the last Request
    ping,       \* wireclient: the context, the attempts and the result of ConnectPing
    login       \* wireclient: the SASL conversation of loginScramSHA256

msgVars  == <<stream, Debug, pc, rd, acc, out, meas, parse>>
bsonVars == <<raw, dec, enc, sz, found, adec, cmp>>
docVars  == <<doc, arr, last, hist>>
clientVars == <<ping, login>>
vars     == <<stream, Debug, pc, rd, acc, out, meas, parse, raw, dec, enc, sz, found, adec, cmp, doc, arr, last, hist, conn, ping, login>>

-----------------------------------------------------------------------------
(* Byte-slice helpers: encoding/binary.LittleEndian and Go slicing.        *)

Sl(b, lo, hi) == SubSeq(b, lo + 1, hi)
From(b, lo)   == SubSeq(b, lo + 1, Len(b))

\* int(binary.LittleEndian.Uint32(b[off:])), a non-negative 64-bit int in Go.
\* The checker's integers are 32 bits wide: a value of 2^31 or more (top byte
\* >= 0x80) is kept as 2^31 - 1, which like the true value exceeds every slice
\* length of the model and is never written back.
Uint32(b, off) ==
    IF b[off + 4] >= 128 THEN 2147483647
    ELSE b[off + 1] + b[off + 2] * 256 + b[off + 3] * 65536 + b[off + 4] * 16777216

\* int32(binary.LittleEndian.Uint32(b[off:])): two's complement, exact.
Int32LE(b, off) ==
    b[off + 1] + b[off + 2] * 256 + b[off + 3] * 65536
        + (IF b[off + 4] >= 128 THEN b[off + 4] - 256 ELSE b[off + 4]) * 16777216

\* binary.LittleEndian.PutUint32(b, uint32(v)) for an int32 or a small int v.
PutUint32(v) ==
    LET hi == IF v < 0 THEN ((v + 2147483647) + 1) \div 16777216 + 128
                       ELSE v \div 16777216
        lo == IF v < 0 THEN ((v + 2147483647) + 1) % 16777216 ELSE v % 16777216
    IN  <<lo % 256, (lo \div 256) % 256, (lo \div 65536) % 256, hi>>

RECURSIVE IndexByte0(_, _)
\* bytes.IndexByte(b, 0) searched from position i (0-based); -1 when absent.
IndexByte0(b, i) ==
    IF i >= Len(b) THEN -1
    ELSE IF b[i + 1] = 0 THEN i
    ELSE IndexByte0(b, i + 1)

SizeCString(v) == Len(v) + 1

EncodeCString(v) == v \o <<0>>

\* DecodeCString: the bytes before the first 0x00, or an error.
DecodeCString(b) ==
    IF Len(b) < 1 THEN [err |-> "ShortInput", v |-> <<>>]
    ELSE LET i == IndexByte0(b, 0)
         IN  IF i = -1 THEN [err |-> "InvalidInput", v |-> <<>>]
             ELSE [err |-> "", v |-> Sl(b, 0, i)]

\* FindRaw: the length of the first raw document or array in b.
\* FindRaw without the test of the last byte.
FindRawNoTerminatorCheck(b) ==
    LET bl == Len(b)
    IN  IF bl < 5 THEN [err |-> "ShortInput", l |-> 0]
        ELSE LET dl == Uint32(b, 0)
             IN  IF dl < 5 THEN [err |-> "InvalidInput", l |-> 0]
                 ELSE IF bl < dl THEN [err |-> "ShortInput", l |-> 0]
                 ELSE [err |-> "", l |-> dl]

FindRaw(b) ==
    LET bl == Len(b)
    IN  IF bl < 5 THEN [err |-> "ShortInput", l |-> 0]
        ELSE LET dl == Uint32(b, 0)
             IN  IF dl < 5 THEN [err |-> "InvalidInput", l |-> 0]
                 ELSE IF bl < dl THEN [err |-> "ShortInput", l |-> 0]
                 ELSE IF b[dl] # 0 THEN [err |-> "InvalidInput", l |-> 0]
                 ELSE [err |-> "", l |-> dl]

-----------------------------------------------------------------------------
(* package wirebson: values.                                               *)
(* A value is a record with a type field t:                                *)
(*   Document [fields: seq of [name, value]], RawDocument [b],             *)
(*   Array [elements], RawArray [b], and the scalars bool [v], int32 [v],  *)
(*   string [v], Binary [B, Subtype], Regex [Pattern, Options], NullType,  *)
(*   UndefinedType, and the fixed-width scalars float64, ObjectID, Time,   *)
(*   Timestamp, int64, Decimal128 carried as their little-endian [bits].   *)
(* "invalid" stands for any Go value outside the BSON universe.            *)

ErrDecodeShortInput   == "ShortInput"
ErrDecodeInvalidInput == "InvalidInput"

Fail(e) == [err |-> e]

\* strconv.Itoa for a small non-negative index, as bytes.
RECURSIVE Itoa(_)
Itoa(n) == IF n < 10 THEN <<48 + n>> ELSE Itoa(n \div 10) \o <<48 + (n % 10)>>

\* The width of the fixed-width scalar with tag tg (sizeFloat64, sizeObjectID, ...).
FixedName(tg) ==
    CASE tg = 1  -> "float64"
      [] tg = 7  -> "ObjectID"
      [] tg = 9  -> "Time"
      [] tg = 17 -> "Timestamp"
      [] tg = 18 -> "int64"
      [] tg = 19 -> "Decimal128"

FixedSize(name) ==
    CASE name = "ObjectID"   -> 12
      [] name = "Decimal128" -> 16
      [] OTHER               -> 8

decodeFixed(b, name) ==
    IF Len(b) < FixedSize(name) THEN Fail(ErrDecodeShortInput)
    ELSE [err |-> "", v |-> [t |-> name, bits |-> Sl(b, 0, FixedSize(name))],
          size |-> FixedSize(name)]

decodeBool(b) ==
    IF Len(b) = 0 THEN Fail(ErrDecodeShortInput)
    ELSE IF b[1] = 0 THEN [err |-> "", v |-> [t |-> "bool", v |-> FALSE], size |-> 1]
    ELSE IF b[1] = 1 THEN [err |-> "", v |-> [t |-> "bool", v |-> TRUE], size |-> 1]
    ELSE Fail(ErrDecodeInvalidInput)

decodeInt32(b) ==
    IF Len(b) < 4 THEN Fail(ErrDecodeShortInput)
    ELSE [err |-> "", v |-> [t |-> "int32", v |-> Int32LE(b, 0)], size |-> 4]

decodeString(b) ==
    IF Len(b) < 5 THEN Fail(ErrDecodeShortInput)
    ELSE LET i == Uint32(b, 0)
         IN  IF i < 1 THEN Fail(ErrDecodeInvalidInput)
             ELSE IF Len(b) - 4 < i THEN Fail(ErrDecodeShortInput)
             ELSE IF b[4 + i] # 0 THEN Fail(ErrDecodeInvalidInput)
             ELSE [err |-> "", v |-> [t |-> "string", v |-> Sl(b, 4, 4 + i - 1)],
                   size |-> i + 4]

decodeBinary(b) ==
    IF Len(b) < 5 THEN Fail(ErrDecodeShortInput)
    ELSE LET i == Uint32(b, 0)
         IN  IF Len(b) - 5 < i THEN Fail(ErrDecodeShortInput)
             ELSE [err |-> "",
                   v |-> [t |-> "Binary", B |-> Sl(b, 5, 5 + i), Subtype |-> b[5]],
                   size |-> i + 5]

decodeRegex(b) ==
    IF Len(b) < 2 THEN Fail(ErrDecodeShortInput)
    ELSE LET p == IndexByte0(b, 0)
             o == IF p = -1 THEN -1 ELSE IndexByte0(b, p + 1)
         IN  IF o = -1 THEN Fail(ErrDecodeShortInput)
             ELSE [err |-> "",
                   v |-> [t |-> "Regex", Pattern |-> Sl(b, 0, p), Options |-> Sl(b, p + 1, o)],
                   size |-> o + 1]

\* decodeScalarField: the value and the size of the scalar with tag tg at the
\* start of b.  Undefined and Null take no bytes.
decodeScalarField(b, tg) ==
    CASE tg \in {3, 4}           -> Fail("non-scalar tag")
      [] tg \in {1, 7, 9, 17, 18, 19} -> decodeFixed(b, FixedName(tg))
      [] tg = 2                  -> decodeString(b)
      [] tg = 5                  -> decodeBinary(b)
      [] tg = 6                  -> [err |-> "", v |-> [t |-> "UndefinedType"], size |-> 0]
      [] tg = 8                  -> decodeBool(b)
      [] tg = 10                 -> [err |-> "", v |-> [t |-> "NullType"], size |-> 0]
      [] tg = 11                 -> decodeRegex(b)
      [] tg \in {12, 13, 14, 15} -> Fail(ErrDecodeInvalidInput)
      [] tg = 16                 -> decodeInt32(b)
      [] tg \in {255, 127}       -> Fail(ErrDecodeInvalidInput)
      [] OTHER                   -> Fail(ErrDecodeInvalidInput)

decodeShallow == "shallow"
decodeDeep    == "deep"

RECURSIVE decodeFields(_, _, _, _), RawArray_decode(_, _)

\* RawDocument.decode: the length prefix must equal len(raw); fields are read
\* until the 0x00 terminator, which must be the last byte.
RawDocument_decode(b, mode) ==
    IF Len(b) < 5 THEN Fail(ErrDecodeShortInput)
    ELSE IF Uint32(b, 0) # Len(b) THEN Fail(ErrDecodeInvalidInput)
    ELSE decodeFields(b, 4, mode, <<>>)

decodeFields(b, offset, mode, fields) ==
    IF offset >= Len(b) THEN Fail(ErrDecodeShortInput)
    ELSE IF b[offset + 1] = 0 THEN
        IF offset + 1 = Len(b)
        THEN [err |-> "", v |-> [t |-> "Document", fields |-> fields]]
        ELSE Fail(ErrDecodeInvalidInput)
    ELSE
        LET tg   == b[offset + 1]
            name == DecodeCString(From(b, offset + 1))
        IN  IF name.err # "" THEN Fail(name.err)
            ELSE
            LET o2 == offset + 1 + SizeCString(name.v)
            IN  IF tg \in {3, 4} THEN
                    LET r == FindRaw(From(b, o2))
                    IN  IF r.err # "" THEN Fail(r.err)
                        ELSE
                        LET sub == Sl(b, o2, o2 + r.l)
                            val == IF mode = decodeShallow
                                   THEN [err |-> "",
                                         v |-> [t |-> IF tg = 3 THEN "RawDocument" ELSE "RawArray",
                                                b |-> sub]]
                                   ELSE IF tg = 3 THEN RawDocument_decode(sub, decodeDeep)
                                   ELSE RawArray_decode(sub, decodeDeep)
                        IN  IF val.err # "" THEN Fail(val.err)
                            ELSE decodeFields(b, o2 + r.l, mode,
                                     Append(fields, [name |-> name.v, value |-> val.v]))
                ELSE
                    LET sc == decodeScalarField(From(b, o2), tg)
                    IN  IF sc.err # "" THEN Fail(sc.err)
                        ELSE decodeFields(b, o2 + sc.size, mode,
                                 Append(fields, [name |-> name.v, value |-> sc.v]))

\* RawArray.decode that takes any field names.
RawArray_decodeUnindexed(b, mode) ==
    LET d == RawDocument_decode(b, mode)
    IN  IF d.err # "" THEN Fail(d.err)
        ELSE [err |-> "",
              v |-> [t |-> "Array",
                     elements |-> [i \in 1..Len(d.v.fields) |-> d.v.fields[i].value]]]

\* RawArray.decode: decode as a document, then every name must be its index.
RawArray_decode(b, mode) ==
    LET d == RawDocument_decode(b, mode)
    IN  IF d.err # "" THEN Fail(d.err)
        ELSE IF \E i \in 1..Len(d.v.fields) : d.v.fields[i].name # Itoa(i - 1)
             THEN Fail("invalid array index")
        ELSE [err |-> "",
              v |-> [t |-> "Array",
                     elements |-> [i \in 1..Len(d.v.fields) |-> d.v.fields[i].value]]]


\* RawDocument.Decode / RawDocument.DecodeDeep.
Decode(b)     == RawDocument_decode(b, decodeShallow)
DecodeDeep(b) == RawDocument_decode(b, decodeDeep)

ScalarTypes ==
    {"float64", "string", "Binary", "ObjectID", "bool", "Time", "NullType",
     "Regex", "int32", "Timestamp", "int64", "Decimal128"}

\* validBSONType: nil (TRUE) for the composite, raw and scalar types and for
\* UndefinedType.
validBSONType(v) ==
    v.t \in {"Document", "RawDocument", "Array", "RawArray", "UndefinedType"}
            \cup ScalarTypes

\* sizeScalar; -1 stands for its panic on a type it does not list.
sizeScalar(v) ==
    CASE v.t \in {"float64", "ObjectID", "Time", "Timestamp", "int64", "Decimal128"}
                          -> FixedSize(v.t)
      [] v.t = "string"   -> Len(v.v) + 5
      [] v.t = "Binary"   -> Len(v.B) + 5
      [] v.t = "bool"     -> 1
      [] v.t = "NullType" -> 0
      [] v.t = "Regex"    -> Len(v.Pattern) + Len(v.Options) + 2
      [] v.t = "int32"    -> 4
      [] OTHER            -> -1

RECURSIVE Size(_), SumSizes(_, _)

\* Sum over the fields of 1 + SizeCString(name) + Size(value); -1 once a Size panics.
\* fs is a sequence of [name, value].
SumSizes(fs, i) ==
    IF i > Len(fs) THEN 0
    ELSE LET this == Size(fs[i].value)
             rest == SumSizes(fs, i + 1)
         IN  IF this = -1 \/ rest = -1 THEN -1
             ELSE 1 + SizeCString(fs[i].name) + this + rest

IndexedFields(elements) ==
    [i \in 1..Len(elements) |-> [name |-> Itoa(i - 1), value |-> elements[i]]]

sizeDocument(d) ==
    LET s == SumSizes(d.fields, 1) IN IF s = -1 THEN -1 ELSE 5 + s

sizeArray(a) ==
    LET s == SumSizes(IndexedFields(a.elements), 1) IN IF s = -1 THEN -1 ELSE 5 + s

Size(v) ==
    CASE v.t = "Document"                  -> sizeDocument(v)
      [] v.t \in {"RawDocument", "RawArray"} -> Len(v.b)
      [] v.t = "Array"                     -> sizeArray(v)
      [] OTHER                             -> sizeScalar(v)

\* encodeScalarValue: the bytes of a scalar value.
encodeScalarValue(v) ==
    CASE v.t \in {"float64", "ObjectID", "Time", "Timestamp", "int64", "Decimal128"}
                          -> v.bits
      [] v.t = "string"   -> PutUint32(Len(v.v) + 1) \o v.v \o <<0>>
      [] v.t = "Binary"   -> PutUint32(Len(v.B)) \o <<v.Subtype>> \o v.B
      [] v.t = "bool"     -> IF v.v THEN <<1>> ELSE <<0>>
      [] v.t = "NullType" -> <<>>
      [] v.t = "Regex"    -> v.Pattern \o <<0>> \o v.Options \o <<0>>
      [] v.t = "int32"    -> PutUint32(v.v)

ScalarTag(v) ==
    CASE v.t = "float64" -> 1   [] v.t = "string"    -> 2  [] v.t = "Binary" -> 5
      [] v.t = "ObjectID" -> 7  [] v.t = "bool"      -> 8  [] v.t = "Time"   -> 9
      [] v.t = "NullType" -> 10 [] v.t = "Regex"     -> 11 [] v.t = "int32"  -> 16
      [] v.t = "Timestamp" -> 17 [] v.t = "int64"    -> 18 [] v.t = "Decimal128" -> 19

\* encodeScalarField: tag, name, value.  It is defined in encode.go but
\* encodeField does not call it.
encodeScalarField(name, v) ==
    IF v.t \notin ScalarTypes THEN [res |-> "panic", b |-> <<>>]
    ELSE [res |-> "ok", b |-> <<ScalarTag(v)>> \o EncodeCString(name) \o encodeScalarValue(v)]

RECURSIVE encodeField(_, _), EncodeFields(_, _)

\* The bytes encodeField writes for every field of fs from position i on.
EncodeFields(fs, i) ==
    IF i > Len(fs) THEN [res |-> "ok", b |-> <<>>]
    ELSE LET f    == encodeField(fs[i].name, fs[i].value)
             rest == EncodeFields(fs, i + 1)
         IN  IF f.res # "ok" THEN f
             ELSE IF rest.res # "ok" THEN rest
             ELSE [res |-> "ok", b |-> f.b \o rest.b]

\* Document.Encode: the size, every field through encodeField, the terminator.
Document_Encode(d) ==
    LET size == sizeDocument(d)
    IN  IF size = -1 THEN [res |-> "panic", b |-> <<>>]
        ELSE LET fs == EncodeFields(d.fields, 1)
             IN  IF fs.res # "ok" THEN fs
                 ELSE [res |-> "ok", b |-> PutUint32(size) \o fs.b \o <<0>>]

\* Array.Encode: as a document whose names are the indices.
Array_Encode(a) ==
    LET size == sizeArray(a)
    IN  IF size = -1 THEN [res |-> "panic", b |-> <<>>]
        ELSE LET fs == EncodeFields(IndexedFields(a.elements), 1)
             IN  IF fs.res # "ok" THEN fs
                 ELSE [res |-> "ok", b |-> PutUint32(size) \o fs.b \o <<0>>]

\* encodeField: tag, name and body of a composite field; the default branch
\* (the call of encodeScalarField) is commented out, so a scalar writes nothing.
encodeField(name, v) ==
    CASE v.t = "Document" ->
            LET e == Document_Encode(v)
            IN  IF e.res # "ok" THEN e
                ELSE [res |-> "ok", b |-> <<3>> \o EncodeCString(name) \o e.b]
      [] v.t = "RawDocument" -> [res |-> "ok", b |-> <<3>> \o EncodeCString(name) \o v.b]
      [] v.t = "Array" ->
            LET e == Array_Encode(v)
            IN  IF e.res # "ok" THEN e
                ELSE [res |-> "ok", b |-> <<4>> \o EncodeCString(name) \o e.b]
      [] v.t = "RawArray" -> [res |-> "ok", b |-> <<4>> \o EncodeCString(name) \o v.b]
      [] OTHER -> [res |-> "ok", b |-> <<>>]


-----------------------------------------------------------------------------
(* package wire: OP_MSG.                                                   *)
(* A section is [kind, identifier, documents]; a message is                *)
(* [Flags, sections, checksum].                                            *)

\* OpMsgFlags.FlagSet(OpMsgChecksumPresent): bit 0 of the flags.
ChecksumPresent(flags) == flags % 2 = 1

\* checkSections: "" for nil, else the error.  The first offending section in
\* order decides the error; kind0Found is never read after the loop.
RECURSIVE checkSectionsFrom(_, _, _)
checkSectionsFrom(sections, i, kind0Found) ==
    IF i > Len(sections) THEN ""
    ELSE LET s == sections[i]
         IN  CASE s.kind = 0 ->
                    IF kind0Found THEN "multiple kind 0 sections"
                    ELSE IF s.identifier # <<>> THEN "kind 0 section has identifier"
                    ELSE IF Len(s.documents) # 1 THEN "kind 0 section has documents"
                    ELSE checkSectionsFrom(sections, i + 1, TRUE)
               [] s.kind = 1 ->
                    IF s.identifier = <<>> THEN "kind 1 section has no identifier"
                    ELSE checkSectionsFrom(sections, i + 1, kind0Found)
               [] OTHER -> "unknown kind"

checkSections(sections) ==
    IF Len(sections) = 0 THEN "no sections"
    ELSE checkSectionsFrom(sections, 1, FALSE)

\* OpMsg.check: every document of every section must decode deeply.
OpMsg_check(sections) ==
    IF \E i \in 1..Len(sections) : \E j \in 1..Len(sections[i].documents) :
            DecodeDeep(sections[i].documents[j]).err # ""
    THEN "decode" ELSE ""

\* math.IsNaN on the little-endian bits of a float64: the exponent is all
\* ones and the fraction is not zero.
IsNaNBits(bits) ==
    /\ bits[8] % 128 = 127 /\ bits[7] \div 16 = 15
    /\ (bits[7] % 16 # 0 \/ \E k \in 1..6 : bits[k] # 0)

\* checkNaN on a deeply decoded value: TRUE when it returns the error "NaN is
\* not supported".
RECURSIVE checkNaN(_)
checkNaN(v) ==
    CASE v.t = "Document" -> \E i \in 1..Len(v.fields) : checkNaN(v.fields[i].value)
      [] v.t = "Array"    -> \E i \in 1..Len(v.elements) : checkNaN(v.elements[i])
      [] v.t = "float64"  -> IsNaNBits(v.bits)
      [] OTHER            -> FALSE

\* OpMsg.check with the CheckNaNs toggle n: every document of every section
\* is decoded deeply and, with n, searched for a NaN.
OpMsg_checkNaNs(sections, n) ==
    IF OpMsg_check(sections) # "" THEN "decode"
    ELSE IF n /\ \E i \in 1..Len(sections) : \E j \in 1..Len(sections[i].documents) :
                    checkNaN(DecodeDeep(sections[i].documents[j]).v)
    THEN "NaN" ELSE ""

RECURSIVE kind1Documents(_, _, _, _)
\* The inner loop of UnmarshalBinaryNocopy: documents until secSize is used up.
kind1Documents(b, offset, secSize, documents) ==
    IF secSize = 0 THEN [res |-> "ok", offset |-> offset, documents |-> documents]
    ELSE IF secSize < 0 THEN [res |-> "error"]
    ELSE IF Len(b) < offset THEN [res |-> "error"]
    ELSE LET r == FindRaw(From(b, offset))
         IN  IF r.err # "" THEN [res |-> "error"]
             ELSE kind1Documents(b, offset + r.l, secSize - r.l,
                                 Append(documents, Sl(b, offset, offset + r.l)))

\* One section read at offset: kind byte, then the kind-0 document or the
\* kind-1 size, identifier and documents.  Reading b[offset] with
\* offset >= len(b) is Go's index-out-of-range panic.
readSection(b, offset) ==
    IF offset >= Len(b) THEN [res |-> "panic"]
    ELSE
    LET kind == b[offset + 1]
        o1   == offset + 1
    IN  CASE kind = 0 ->
                LET r == FindRaw(From(b, o1))
                IN  IF r.err # "" THEN [res |-> "error"]
                    ELSE [res |-> "ok", offset |-> o1 + r.l,
                          section |-> [kind |-> 0, identifier |-> <<>>,
                                       documents |-> <<Sl(b, o1, o1 + r.l)>>]]
          [] kind = 1 ->
                IF Len(b) < o1 + 4 THEN [res |-> "error"]
                ELSE
                LET secSize == Uint32(b, o1) - 4
                    o2      == o1 + 4
                IN  IF secSize < 5 THEN [res |-> "error"]
                    ELSE IF Len(b) < o2 THEN [res |-> "error"]
                    ELSE
                    LET id == DecodeCString(From(b, o2))
                    IN  IF id.err # "" THEN [res |-> "error"]
                        ELSE
                        LET d == kind1Documents(b, o2 + SizeCString(id.v),
                                                secSize - SizeCString(id.v), <<>>)
                        IN  IF d.res # "ok" THEN [res |-> "error"]
                            ELSE [res |-> "ok", offset |-> d.offset,
                                  section |-> [kind |-> 1, identifier |-> id.v,
                                               documents |-> d.documents]]
          [] OTHER -> [res |-> "error"]

\* The break condition that ends the section loop.
sectionsEnd(b, flags, offset) ==
    IF ChecksumPresent(flags) THEN offset = Len(b) - 4 ELSE offset = Len(b)

RECURSIVE readSections(_, _, _, _)
\* The outer loop of UnmarshalBinaryNocopy.
readSections(b, flags, offset, sections) ==
    LET r == readSection(b, offset)
    IN  IF r.res # "ok" THEN [res |-> r.res]
        ELSE IF sectionsEnd(b, flags, r.offset)
             THEN [res |-> "ok", offset |-> r.offset,
                   sections |-> Append(sections, r.section)]
        ELSE readSections(b, flags, r.offset, Append(sections, r.section))

\* OpMsg.UnmarshalBinaryNocopy(b) with the Debug toggle d:
\* res is "nil", "error" or "panic"; msg is the message on nil.
OpMsg_UnmarshalBinaryNocopy(b, d) ==
    IF Len(b) < 6 THEN [res |-> "error"]
    ELSE
    LET flags == Uint32(b, 0)
        r     == readSections(b, flags, 4, <<>>)
    IN  IF r.res # "ok" THEN [res |-> r.res]
        ELSE
        LET checksum == IF ChecksumPresent(flags) THEN Uint32(b, r.offset) ELSE 0
        IN  IF checkSections(r.sections) # "" THEN [res |-> "error"]
            ELSE IF d /\ OpMsg_check(r.sections) # "" THEN [res |-> "error"]
            ELSE [res |-> "nil",
                  msg |-> [type |-> "OpMsg", Flags |-> flags,
                           sections |-> r.sections, checksum |-> checksum]]

\* The same function, one loop iteration at a time.  p holds the locals:
\* b, the Debug toggle d, offset, secSize, msg.sections, the identifier and
\* documents of the kind-1 section being read, and the position at.
ParseStart(b, d) ==
    [b |-> b, d |-> d, offset |-> IF Len(b) < 6 THEN 0 ELSE 4, secSize |-> 0,
     sections |-> <<>>, identifier |-> <<>>, documents |-> <<>>,
     at |-> IF Len(b) < 6 THEN "error" ELSE "section"]

\* The end of an iteration of the section loop: append, then break or go on.
sectionEnd(p, section) ==
    [p EXCEPT !.sections = Append(@, section),
              !.at = IF sectionsEnd(p.b, Uint32(p.b, 0), p.offset)
                     THEN "checks" ELSE "section"]

\* An iteration of the section loop up to its end (kind 0) or up to the
\* document loop (kind 1).
sectionStep(p) ==
    IF p.offset >= Len(p.b) THEN [p EXCEPT !.at = "panic"]
    ELSE
    LET kind == p.b[p.offset + 1]
        o1   == p.offset + 1
    IN  CASE kind = 0 ->
                LET r == FindRaw(From(p.b, o1))
                IN  IF r.err # "" THEN [p EXCEPT !.at = "error"]
                    ELSE sectionEnd([p EXCEPT !.offset = o1 + r.l],
                                    [kind |-> 0, identifier |-> <<>>,
                                     documents |-> <<Sl(p.b, o1, o1 + r.l)>>])
          [] kind = 1 ->
                IF Len(p.b) < o1 + 4 THEN [p EXCEPT !.at = "error"]
                ELSE
                LET secSize == Uint32(p.b, o1) - 4
                    o2      == o1 + 4
                IN  IF secSize < 5 THEN [p EXCEPT !.at = "error"]
                    ELSE IF Len(p.b) < o2 THEN [p EXCEPT !.at = "error"]
                    ELSE
                    LET id == DecodeCString(From(p.b, o2))
                    IN  IF id.err # "" THEN [p EXCEPT !.at = "error"]
                        ELSE [p EXCEPT !.offset = o2 + SizeCString(id.v),
                                       !.secSize = secSize - SizeCString(id.v),
                                       !.identifier = id.v,
                                       !.documents = <<>>,
                                       !.at = "document"]
          [] OTHER -> [p EXCEPT !.at = "error"]

\* An iteration of the document loop that leaves secSize as it was.
documentStepSizeKept(p) ==
    IF p.secSize = 0
    THEN sectionEnd(p, [kind |-> 1, identifier |-> p.identifier,
                        documents |-> p.documents])
    ELSE IF p.secSize < 0 THEN [p EXCEPT !.at = "error"]
    ELSE IF Len(p.b) < p.offset THEN [p EXCEPT !.at = "error"]
    ELSE LET r == FindRaw(From(p.b, p.offset))
         IN  IF r.err # "" THEN [p EXCEPT !.at = "error"]
             ELSE [p EXCEPT !.offset = @ + r.l,
                            !.documents = Append(@, Sl(p.b, p.offset, p.offset + r.l))]

\* The test of the document loop and one iteration of it; with secSize 0
\* the loop is left and the iteration of the section loop ends.
documentStep(p) ==
    IF p.secSize = 0
    THEN sectionEnd(p, [kind |-> 1, identifier |-> p.identifier,
                        documents |-> p.documents])
    ELSE IF p.secSize < 0 THEN [p EXCEPT !.at = "error"]
    ELSE IF Len(p.b) < p.offset THEN [p EXCEPT !.at = "error"]
    ELSE LET r == FindRaw(From(p.b, p.offset))
         IN  IF r.err # "" THEN [p EXCEPT !.at = "error"]
             ELSE [p EXCEPT !.offset = @ + r.l,
                            !.secSize = @ - r.l,
                            !.documents = Append(@, Sl(p.b, p.offset, p.offset + r.l))]

\* What follows the section loop: checkSections and the Debug check.
checksStep(p) ==
    IF checkSections(p.sections) # "" THEN [p EXCEPT !.at = "error"]
    ELSE IF p.d /\ OpMsg_check(p.sections) # "" THEN [p EXCEPT !.at = "error"]
    ELSE [p EXCEPT !.at = "nil"]

RECURSIVE ConcatAll(_, _)
\* append(seq, d...) over a sequence of byte slices, from position i on.
ConcatAll(ds, i) == IF i > Len(ds) THEN <<>> ELSE ds[i] \o ConcatAll(ds, i + 1)

\* marshalSection with a kind-1 size that leaves out its own four bytes.
marshalSectionSizeWithoutItself(s) ==
    CASE s.kind = 0 ->
            IF Len(s.documents) = 0 THEN [res |-> "panic", b |-> <<>>]
            ELSE [res |-> "ok", b |-> <<0>> \o s.documents[1]]
      [] s.kind = 1 ->
            LET sec == EncodeCString(s.identifier) \o ConcatAll(s.documents, 1)
            IN  [res |-> "ok", b |-> <<1>> \o PutUint32(Len(sec)) \o sec]
      [] OTHER -> [res |-> "error", b |-> <<>>]

\* The body of the section loop of MarshalBinary: the kind byte, then the
\* kind-0 document or the kind-1 size (which counts itself), identifier and
\* documents.
marshalSection(s) ==
    CASE s.kind = 0 ->
            IF Len(s.documents) = 0 THEN [res |-> "panic", b |-> <<>>]
            ELSE [res |-> "ok", b |-> <<0>> \o s.documents[1]]
      [] s.kind = 1 ->
            LET sec == EncodeCString(s.identifier) \o ConcatAll(s.documents, 1)
            IN  [res |-> "ok", b |-> <<1>> \o PutUint32(Len(sec) + 4) \o sec]
      [] OTHER -> [res |-> "error", b |-> <<>>]

RECURSIVE marshalSections(_, _)
marshalSections(sections, i) ==
    IF i > Len(sections) THEN [res |-> "ok", b |-> <<>>]
    ELSE
    LET this == marshalSection(sections[i])
        rest == marshalSections(sections, i + 1)
    IN  IF this.res # "ok" THEN this
        ELSE IF rest.res # "ok" THEN rest
        ELSE [res |-> "ok", b |-> this.b \o rest.b]

\* OpMsg.MarshalBinary with the Debug toggle d.
OpMsg_MarshalBinary(msg, d) ==
    IF d /\ OpMsg_check(msg.sections) # "" THEN [res |-> "error", b |-> <<>>]
    ELSE
    LET ss == marshalSections(msg.sections, 1)
    IN  IF ss.res # "ok" THEN ss
        ELSE [res |-> "ok",
              b |-> PutUint32(msg.Flags) \o ss.b
                    \o (IF ChecksumPresent(msg.Flags) THEN PutUint32(msg.checksum)
                        ELSE <<>>)]


\* OpMsg.Size.  -1 stands for its "not reached" panic on an unknown kind.
RECURSIVE sectionsSize(_, _)
sectionsSize(sections, i) ==
    IF i > Len(sections) THEN 0
    ELSE
    LET s    == sections[i]
        rest == sectionsSize(sections, i + 1)
        this == CASE s.kind = 0 ->
                       1 + (IF Len(s.documents) > 0 THEN Len(s.documents[1]) ELSE 0)
                  [] s.kind = 1 ->
                       1 + 4 + SizeCString(s.identifier) + Len(ConcatAll(s.documents, 1))
                  [] OTHER -> -1
    IN  IF this = -1 \/ rest = -1 THEN -1 ELSE this + rest

\* OpMsg.Size without the four bytes of the checksum.
OpMsg_SizeWithoutChecksum(msg) ==
    LET n == sectionsSize(msg.sections, 1)
    IN  IF n = -1 THEN -1 ELSE 4 + n

OpMsg_Size(msg) ==
    LET n == sectionsSize(msg.sections, 1)
    IN  IF n = -1 THEN -1
        ELSE 4 + n + (IF ChecksumPresent(msg.Flags) THEN 4 ELSE 0)

-----------------------------------------------------------------------------
(* package wire: OP_REPLY and OP_QUERY.  A nil document is <<>>.           *)

OpReply_check(reply) ==
    IF reply.document # <<>> /\ DecodeDeep(reply.document).err # "" THEN "decode" ELSE ""

\* OpReply.UnmarshalBinaryNocopy without the comparison of numberReturned
\* with the presence of the document.
OpReply_UnmarshalUncompared(b, d) ==
    IF Len(b) < 20 THEN [res |-> "error"]
    ELSE
    LET numberReturned == Int32LE(b, 16)
        reply == [type |-> "OpReply", Flags |-> Uint32(b, 0),
                  CursorID |-> <<Uint32(b, 4), Uint32(b, 8)>>,
                  StartingFrom |-> Int32LE(b, 12), document |-> From(b, 20)]
    IN  IF numberReturned < 0 \/ numberReturned > 1 THEN [res |-> "error"]
        ELSE IF d /\ OpReply_check(reply) # "" THEN [res |-> "error"]
        ELSE [res |-> "nil", msg |-> reply]

OpReply_UnmarshalBinaryNocopy(b, d) ==
    IF Len(b) < 20 THEN [res |-> "error"]
    ELSE
    LET numberReturned == Int32LE(b, 16)
        reply == [type |-> "OpReply", Flags |-> Uint32(b, 0),
                  CursorID |-> <<Uint32(b, 4), Uint32(b, 8)>>,
                  StartingFrom |-> Int32LE(b, 12), document |-> From(b, 20)]
    IN  IF numberReturned < 0 \/ numberReturned > 1 THEN [res |-> "error"]
        ELSE IF (numberReturned = 0) # (reply.document = <<>>) THEN [res |-> "error"]
        ELSE IF d /\ OpReply_check(reply) # "" THEN [res |-> "error"]
        ELSE [res |-> "nil", msg |-> reply]

OpReply_Size(reply) == 20 + Len(reply.document)

OpReply_MarshalBinary(reply) ==
    [res |-> "ok",
     b |-> PutUint32(reply.Flags) \o PutUint32(reply.CursorID[1])
           \o PutUint32(reply.CursorID[2]) \o PutUint32(reply.StartingFrom)
           \o (IF reply.document = <<>> THEN PutUint32(0)
               ELSE PutUint32(1) \o reply.document)]

OpQuery_check(query) ==
    IF \/ (query.query # <<>> /\ DecodeDeep(query.query).err # "")
       \/ (query.returnFieldsSelector # <<>>
           /\ DecodeDeep(query.returnFieldsSelector).err # "")
    THEN "decode" ELSE ""

OpQuery_UnmarshalBinaryNocopy(b, d) ==
    IF Len(b) < 4 THEN [res |-> "error"]
    ELSE
    LET name == DecodeCString(From(b, 4))
    IN  IF name.err # "" THEN [res |-> "error"]
        ELSE
        LET numberLow == 4 + SizeCString(name.v)
        IN  IF Len(b) < numberLow + 8 THEN [res |-> "error"]
            ELSE
            LET r == FindRaw(From(b, numberLow + 8))
            IN  IF r.err # "" THEN [res |-> "error"]
                ELSE
                LET selectorLow == numberLow + 8 + r.l
                    r2    == FindRaw(From(b, selectorLow))
                    query == [type |-> "OpQuery", Flags |-> Uint32(b, 0),
                              FullCollectionName |-> name.v,
                              NumberToSkip |-> Int32LE(b, numberLow),
                              NumberToReturn |-> Int32LE(b, numberLow + 4),
                              query |-> Sl(b, numberLow + 8, selectorLow),
                              returnFieldsSelector |->
                                  IF Len(b) # selectorLow THEN From(b, selectorLow)
                                  ELSE <<>>]
                IN  IF Len(b) # selectorLow /\ r2.err # "" THEN [res |-> "error"]
                    ELSE IF Len(b) # selectorLow /\ Len(b) # selectorLow + r2.l
                         THEN [res |-> "error"]
                    ELSE IF d /\ OpQuery_check(query) # "" THEN [res |-> "error"]
                    ELSE [res |-> "nil", msg |-> query]

OpQuery_Size(query) ==
    12 + SizeCString(query.FullCollectionName) + Len(query.query)
       + Len(query.returnFieldsSelector)

OpQuery_MarshalBinary(query, d) ==
    IF d /\ OpQuery_check(query) # "" THEN [res |-> "error", b |-> <<>>]
    ELSE [res |-> "ok",
          b |-> PutUint32(query.Flags) \o EncodeCString(query.FullCollectionName)
                \o PutUint32(query.NumberToSkip) \o PutUint32(query.NumberToReturn)
                \o query.query \o query.returnFieldsSelector]

-----------------------------------------------------------------------------
(* package wire: the header and the read / write pipeline.                 *)

MsgHeaderLen == 16
MaxMsgLen    == 48000000

OpCodeReply      == 1
OpCodeQuery      == 2004
OpCodeCompressed == 2012
OpCodeMsg        == 2013

\* MsgHeader.readFrom with no upper bound on MessageLength.
readFromNoUpperBound(r) ==
    IF Len(r) = 0 THEN [res |-> "ErrZeroRead", n |-> 0]
    ELSE IF Len(r) < MsgHeaderLen THEN [res |-> "error", n |-> Len(r)]
    ELSE
    LET h == [MessageLength |-> Int32LE(r, 0), RequestID |-> Int32LE(r, 4),
              ResponseTo |-> Int32LE(r, 8), OpCode |-> Int32LE(r, 12)]
    IN  IF h.MessageLength < MsgHeaderLen
        THEN [res |-> "error", n |-> MsgHeaderLen]
        ELSE [res |-> "ok", n |-> MsgHeaderLen, header |-> h]

\* MsgHeader.readFrom that takes every failed read for a zero read.
readFromAlwaysZeroRead(r) ==
    IF Len(r) < MsgHeaderLen THEN [res |-> "ErrZeroRead", n |-> Len(r)]
    ELSE
    LET h == [MessageLength |-> Int32LE(r, 0), RequestID |-> Int32LE(r, 4),
              ResponseTo |-> Int32LE(r, 8), OpCode |-> Int32LE(r, 12)]
    IN  IF h.MessageLength < MsgHeaderLen \/ h.MessageLength > MaxMsgLen
        THEN [res |-> "error", n |-> MsgHeaderLen]
        ELSE [res |-> "ok", n |-> MsgHeaderLen, header |-> h]

\* MsgHeader.readFrom on a reader holding the bytes r: io.ReadFull of 16
\* bytes, then the length bounds.  n is the number of bytes taken from the
\* reader: io.ReadFull takes what there is, at most the 16 of its buffer.
readFrom(r) ==
    IF Len(r) = 0 THEN [res |-> "ErrZeroRead", n |-> 0]
    ELSE IF Len(r) < MsgHeaderLen THEN [res |-> "error", n |-> Len(r)]
    ELSE
    LET h == [MessageLength |-> Int32LE(r, 0), RequestID |-> Int32LE(r, 4),
              ResponseTo |-> Int32LE(r, 8), OpCode |-> Int32LE(r, 12)]
    IN  IF h.MessageLength < MsgHeaderLen \/ h.MessageLength > MaxMsgLen
        THEN [res |-> "error", n |-> MsgHeaderLen]
        ELSE [res |-> "ok", n |-> MsgHeaderLen, header |-> h]

\* MsgHeader.MarshalBinary.
MsgHeader_MarshalBinary(h) ==
    PutUint32(h.MessageLength) \o PutUint32(h.RequestID)
        \o PutUint32(h.ResponseTo) \o PutUint32(h.OpCode)

\* MsgBody.UnmarshalBinaryNocopy, by the opcode of the header.
Body_Unmarshal(opCode, b, d) ==
    CASE opCode = OpCodeMsg   -> OpMsg_UnmarshalBinaryNocopy(b, d)
      [] opCode = OpCodeReply -> OpReply_UnmarshalBinaryNocopy(b, d)
      [] opCode = OpCodeQuery -> OpQuery_UnmarshalBinaryNocopy(b, d)
      [] OTHER                -> [res |-> "error"]

Body_MarshalBinary(msg, d) ==
    CASE msg.type = "OpMsg"   -> OpMsg_MarshalBinary(msg, d)
      [] msg.type = "OpReply" -> OpReply_MarshalBinary(msg)
      [] msg.type = "OpQuery" -> OpQuery_MarshalBinary(msg, d)

Body_Size(msg) ==
    CASE msg.type = "OpMsg"   -> OpMsg_Size(msg)
      [] msg.type = "OpReply" -> OpReply_Size(msg)
      [] msg.type = "OpQuery" -> OpQuery_Size(msg)

\* NewOpMsg(doc) with the Debug toggle d; e is what doc.Encode() returned.
NewOpMsg(e, d) ==
    IF e.res # "ok" THEN [res |-> e.res]
    ELSE
    LET sections == <<[kind |-> 0, identifier |-> <<>>, documents |-> <<e.b>>]>>
    IN  IF checkSections(sections) # "" THEN [res |-> "error"]
        ELSE IF d /\ OpMsg_check(sections) # "" THEN [res |-> "error"]
        ELSE [res |-> "nil",
              msg |-> [type |-> "OpMsg", Flags |-> 0, sections |-> sections,
                       checksum |-> 0]]

\* NewOpReply(doc): the zero OpReply holding the encoded document.
NewOpReply(e, d) ==
    IF e.res # "ok" THEN [res |-> e.res]
    ELSE
    LET reply == [type |-> "OpReply", Flags |-> 0, CursorID |-> <<0, 0>>,
                  StartingFrom |-> 0, document |-> e.b]
    IN  IF d /\ OpReply_check(reply) # "" THEN [res |-> "error"]
        ELSE [res |-> "nil", msg |-> reply]

\* NewOpQuery(doc): the zero OpQuery holding the encoded document as query.
NewOpQuery(e, d) ==
    IF e.res # "ok" THEN [res |-> e.res]
    ELSE
    LET query == [type |-> "OpQuery", Flags |-> 0, FullCollectionName |-> <<>>,
                  NumberToSkip |-> 0, NumberToReturn |-> 0, query |-> e.b,
                  returnFieldsSelector |-> <<>>]
    IN  IF d /\ OpQuery_check(query) # "" THEN [res |-> "error"]
        ELSE [res |-> "nil", msg |-> query]

\* OpMsg.SetSections(sections...) with the toggles Debug (d) and CheckNaNs
\* (n): the sections are stored once checkSections passed, before the check
\* of their documents.
OpMsg_SetSections(msg, sections, d, n) ==
    IF checkSections(sections) # "" THEN [res |-> "error", msg |-> msg]
    ELSE
    LET m == [msg EXCEPT !.sections = sections]
    IN  IF (d \/ n) /\ OpMsg_checkNaNs(sections, n) # ""
        THEN [res |-> "error", msg |-> m]
        ELSE [res |-> "nil", msg |-> m]

\* ReadMessage on a reader holding the bytes r: the header, exactly
\* MessageLength - 16 body bytes, the body decoder of the opcode.
\* consumed is the number of bytes taken from the reader.
ReadMessage(r, d) ==
    LET h == readFrom(r)
    IN  IF h.res # "ok" THEN [res |-> h.res, consumed |-> h.n]
        ELSE
        LET bodyLen == h.header.MessageLength - MsgHeaderLen
        IN  IF Len(r) < MsgHeaderLen + bodyLen
            THEN [res |-> "error", consumed |-> Len(r)]
            ELSE
            LET u == Body_Unmarshal(h.header.OpCode,
                                    Sl(r, MsgHeaderLen, MsgHeaderLen + bodyLen), d)
            IN  IF u.res # "nil"
                THEN [res |-> u.res, consumed |-> MsgHeaderLen + bodyLen]
                ELSE [res |-> "nil", header |-> h.header, body |-> u.msg,
                      consumed |-> MsgHeaderLen + bodyLen]

\* WriteMessage: the length is set from body.Size(), the body is marshalled and
\* must have that size, header and body are written.
WriteMessage(header, body, d) ==
    LET size == Body_Size(body)
        b    == Body_MarshalBinary(body, d)
    IN  IF size = -1 THEN [res |-> "panic", b |-> <<>>]
        ELSE IF b.res # "ok" THEN [res |-> b.res, b |-> <<>>]
        ELSE IF Len(b.b) # size THEN [res |-> "panic", b |-> <<>>]
        ELSE [res |-> "nil",
              b |-> MsgHeader_MarshalBinary(
                        [header EXCEPT !.MessageLength = size + MsgHeaderLen]) \o b.b]


-----------------------------------------------------------------------------
(* package wire: the accessors of OpMsg.  Each returns [res, ...] with res *)
(* "ok", "error" or "panic".  Two snapshots of op_msg.go are in the        *)
(* repository: the one with Document / Section0 / Sections and the one     *)
(* with the frozen Document / RawSection0 / RawSections.                   *)

NewDoc(fields, frozen) == [fields |-> fields, frozen |-> frozen]

\* OpMsg.DocumentRaw of the snapshot with Section0Raw: only the section count
\* is checked; sections[0].documents[0] is an index expression.
OpMsg_DocumentRaw(msg) ==
    IF Len(msg.sections) # 1 THEN [res |-> "error"]
    ELSE IF Len(msg.sections[1].documents) = 0 THEN [res |-> "panic"]
    ELSE [res |-> "ok", raw |-> msg.sections[1].documents[1]]

\* OpMsg.Document of the snapshot with Section0Raw: decoded, not frozen.
OpMsg_Document(msg) ==
    LET r == OpMsg_DocumentRaw(msg)
    IN  IF r.res # "ok" THEN [res |-> r.res]
        ELSE LET d == Decode(r.raw)
             IN  IF d.err # "" THEN [res |-> "error"]
                 ELSE [res |-> "ok", doc |-> NewDoc(d.v.fields, FALSE)]

OpMsg_DocumentDeep(msg) ==
    LET r == OpMsg_DocumentRaw(msg)
    IN  IF r.res # "ok" THEN [res |-> r.res]
        ELSE LET d == DecodeDeep(r.raw)
             IN  IF d.err # "" THEN [res |-> "error"]
                 ELSE [res |-> "ok", doc |-> NewDoc(d.v.fields, FALSE)]

\* OpMsg.Section0Raw: the document of the first kind-0 section, else
\* panic("not reached").
OpMsg_Section0Raw(msg) ==
    IF \E i \in 1..Len(msg.sections) : msg.sections[i].kind = 0
    THEN LET i == CHOOSE k \in 1..Len(msg.sections) :
                      /\ msg.sections[k].kind = 0
                      /\ \A j \in 1..(k - 1) : msg.sections[j].kind # 0
         IN  IF Len(msg.sections[i].documents) = 0 THEN [res |-> "panic"]
             ELSE [res |-> "ok", raw |-> msg.sections[i].documents[1]]
    ELSE [res |-> "panic"]

OpMsg_Section0(msg) ==
    LET r == OpMsg_Section0Raw(msg)
    IN  IF r.res # "ok" THEN [res |-> r.res]
        ELSE LET d == Decode(r.raw)
             IN  IF d.err # "" THEN [res |-> "error"]
                 ELSE [res |-> "ok", doc |-> NewDoc(d.v.fields, FALSE)]

RECURSIVE kind1Bytes(_, _)
\* The concatenation of the documents of all kind-1 sections.
kind1Bytes(sections, i) ==
    IF i > Len(sections) THEN <<>>
    ELSE (IF sections[i].kind = 1 THEN ConcatAll(sections[i].documents, 1) ELSE <<>>)
         \o kind1Bytes(sections, i + 1)

\* OpMsg.Sections: decoded kind-0 document, its raw value, the kind-1 bytes.
OpMsg_Sections(msg) ==
    IF \E i \in 1..Len(msg.sections) :
           msg.sections[i].kind = 0 /\ Len(msg.sections[i].documents) = 0
    THEN [res |-> "panic"]
    ELSE IF \E i \in 1..Len(msg.sections) :
           msg.sections[i].kind = 0 /\ Decode(msg.sections[i].documents[1]).err # ""
    THEN [res |-> "error"]
    ELSE [res |-> "ok", seq |-> kind1Bytes(msg.sections, 1)]

\* OpMsg.DocumentRaw of the snapshot with RawSection0: the single section
\* must be of kind 0 with no identifier.
OpMsg_DocumentRaw_checked(msg) ==
    IF Len(msg.sections) # 1 THEN [res |-> "error"]
    ELSE IF msg.sections[1].kind # 0 \/ msg.sections[1].identifier # <<>>
         THEN [res |-> "error"]
    ELSE IF Len(msg.sections[1].documents) = 0 THEN [res |-> "panic"]
    ELSE [res |-> "ok", raw |-> msg.sections[1].documents[1]]

\* OpMsg.Document of the snapshot with RawSection0: decoded, then Freeze.
OpMsg_Document_frozen(msg) ==
    LET r == OpMsg_DocumentRaw_checked(msg)
    IN  IF r.res # "ok" THEN [res |-> r.res]
        ELSE LET d == Decode(r.raw)
             IN  IF d.err # "" THEN [res |-> "error"]
                 ELSE [res |-> "ok", doc |-> NewDoc(d.v.fields, TRUE)]

\* OpMsg.RawSection0: the document of the first kind-0 section, else nil.
OpMsg_RawSection0(msg) ==
    IF \E i \in 1..Len(msg.sections) : msg.sections[i].kind = 0
    THEN LET i == CHOOSE k \in 1..Len(msg.sections) :
                      /\ msg.sections[k].kind = 0
                      /\ \A j \in 1..(k - 1) : msg.sections[j].kind # 0
         IN  IF Len(msg.sections[i].documents) = 0 THEN [res |-> "panic"]
             ELSE [res |-> "ok", raw |-> msg.sections[i].documents[1]]
    ELSE [res |-> "ok", raw |-> <<>>]

\* OpMsg.RawSections: the last kind-0 document and the kind-1 bytes.
OpMsg_RawSections(msg) ==
    IF \E i \in 1..Len(msg.sections) :
           msg.sections[i].kind = 0 /\ Len(msg.sections[i].documents) = 0
    THEN [res |-> "panic"]
    ELSE [res |-> "ok", seq |-> kind1Bytes(msg.sections, 1)]

Accessors ==
    {"Document", "DocumentDeep", "DocumentRaw", "Section0", "Section0Raw", "Sections",
     "Document_frozen", "DocumentRaw_checked", "RawSection0", "RawSections"}

Access(name, msg) ==
    CASE name = "Document"            -> OpMsg_Document(msg)
      [] name = "DocumentDeep"        -> OpMsg_DocumentDeep(msg)
      [] name = "DocumentRaw"         -> OpMsg_DocumentRaw(msg)
      [] name = "Section0"            -> OpMsg_Section0(msg)
      [] name = "Section0Raw"         -> OpMsg_Section0Raw(msg)
      [] name = "Sections"            -> OpMsg_Sections(msg)
      [] name = "Document_frozen"     -> OpMsg_Document_frozen(msg)
      [] name = "DocumentRaw_checked" -> OpMsg_DocumentRaw_checked(msg)
      [] name = "RawSection0"         -> OpMsg_RawSection0(msg)
      [] name = "RawSections"         -> OpMsg_RawSections(msg)


-----------------------------------------------------------------------------
(* Bounded inputs of the wire scenario.                                    *)

MaxSections == 2

EmptyDoc   == <<5, 0, 0, 0, 0>>
\* {"f": true}
BoolDoc    == <<9, 0, 0, 0, 8, 102, 0, 1, 0>>
\* Passes FindRaw, fails to decode: a field with the unknown tag 99.
BadTagDoc  == <<6, 0, 0, 0, 99, 0>>

IdentA    == <<97>>
IdentABCD == <<97, 98, 99, 100>>

\* Well-formed and malformed OP_MSG sections.
SectionChunks ==
    { <<0>> \o EmptyDoc,
      <<0>> \o BadTagDoc,
      <<0, 5, 0, 0, 0, 1>>,
      <<1>> \o PutUint32(9) \o EncodeCString(IdentABCD),
      <<1>> \o PutUint32(6) \o EncodeCString(IdentA),
      <<1>> \o PutUint32(11) \o EncodeCString(IdentA) \o EmptyDoc,
      <<1>> \o PutUint32(20) \o EncodeCString(IdentA) \o EmptyDoc \o BoolDoc,
      <<1>> \o PutUint32(10) \o EncodeCString(<<>>) \o EmptyDoc,
      <<1>> \o PutUint32(10) \o EncodeCString(IdentA) \o EmptyDoc,
      <<2>> }

RECURSIVE SectionStrings(_)
SectionStrings(n) ==
    IF n = 0 THEN {<<>>}
    ELSE {<<>>} \cup {c \o t : c \in SectionChunks, t \in SectionStrings(n - 1)}

\* OP_MSG bodies: flags (none, checksumPresent, moreToCome), sections, and
\* nothing, four checksum bytes or a stray byte after them.
MsgBodies ==
    {PutUint32(f) \o t \o tail :
        f \in {0, 1, 2}, t \in SectionStrings(MaxSections),
        tail \in {<<>>, <<7, 1, 0, 0>>, <<1>>}}

ReplyBodies ==
    {PutUint32(8) \o <<1, 0, 0, 0, 2, 0, 0, 0>> \o PutUint32(-3) \o PutUint32(n) \o d :
        n \in {0, 1, 2, -1}, d \in {<<>>, EmptyDoc, BadTagDoc, <<1>>}}
    \cup {<<1, 0, 0>>}

QueryBodies ==
    {PutUint32(4) \o name \o PutUint32(0) \o PutUint32(-1) \o q \o sel :
        name \in {<<97, 0>>, <<0>>, <<97>>},
        q \in {EmptyDoc, BoolDoc, <<5, 0, 0>>},
        sel \in {<<>>, EmptyDoc, EmptyDoc \o <<0>>, <<3>>}}
    \cup {<<4, 0, 0, 0>>, <<4, 0>>}

Header(len, opCode) ==
    MsgHeader_MarshalBinary([MessageLength |-> len, RequestID |-> 7,
                             ResponseTo |-> -2, OpCode |-> opCode])

\* The bytes after the message that stay in the reader.
Tails == {<<>>, <<9, 9>>}

\* Streams with a header that matches its body.
FramedStreams ==
    {Header(MsgHeaderLen + Len(b), OpCodeMsg) \o b \o t : b \in MsgBodies, t \in Tails}
    \cup {Header(MsgHeaderLen + Len(b), OpCodeReply) \o b \o t : b \in ReplyBodies, t \in Tails}
    \cup {Header(MsgHeaderLen + Len(b), OpCodeQuery) \o b \o t : b \in QueryBodies, t \in Tails}

\* Streams with a header that does not: wrong lengths, other opcodes, a
\* truncated header, an empty stream.
OddStreams ==
    LET b == PutUint32(0) \o <<0>> \o EmptyDoc
    IN  {Header(l, OpCodeMsg) \o b :
            l \in {-1, -2147483647, 0, 15, 16, 25, 26, 27, MaxMsgLen, MaxMsgLen + 1}}
        \cup {Header(MsgHeaderLen + Len(b), op) \o b : op \in {OpCodeCompressed, 0, 2001}}
        \cup {<<>>, <<26>>, SubSeq(Header(26, OpCodeMsg), 1, 15)}

Streams == FramedStreams \cup OddStreams

-----------------------------------------------------------------------------
(* The wire scenario: ReadMessage on a stream, then accessors on the       *)
(* returned OpMsg and WriteMessage of what was read.                       *)

None == [res |-> "none"]

\* No container call has been made yet.
NoCall == [op |-> "none", name |-> <<>>, res |-> "none", wasFrozen |-> FALSE, valid |-> TRUE]

IdleMsg  == stream = <<>> /\ Debug = FALSE /\ pc = "idle" /\ rd = None /\ acc = None /\ out = None
            /\ meas = None /\ parse = None
IdleBson ==
    /\ raw = <<>> /\ dec = None /\ enc = None /\ sz = None /\ found = None
    /\ adec = None /\ cmp = None
IdleDoc  == doc = NewDoc(<<>>, FALSE) /\ arr = [elements |-> <<>>, frozen |-> FALSE]
            /\ last = NoCall /\ hist = None
IdleConn == conn = None /\ ping = None /\ login = None

InitMsg ==
    /\ stream \in Streams
    /\ Debug \in BOOLEAN
    /\ pc = "start"
    /\ rd = None /\ acc = None /\ out = None /\ meas = None /\ parse = None
    /\ IdleBson /\ IdleDoc /\ IdleConn

\* ReadMessage(bufr).
Read ==
    /\ pc = "start"
    /\ rd' = ReadMessage(stream, Debug)
    /\ pc' = "read"
    /\ UNCHANGED <<stream, Debug, acc, out, meas, parse, bsonVars, docVars, conn, clientVars>>

\* One accessor of the OpMsg that ReadMessage returned.
CallAccessor ==
    /\ pc = "read" /\ rd.res = "nil" /\ rd.body.type = "OpMsg"
    /\ \E name \in Accessors : acc' = [name |-> name, r |-> Access(name, rd.body)]
    /\ UNCHANGED <<stream, Debug, pc, rd, out, meas, parse, bsonVars, docVars, conn, clientVars>>

\* WriteMessage(bufw, msgHeader, msgBody) of what was read.
Write ==
    /\ pc = "read" /\ rd.res = "nil"
    /\ out' = WriteMessage(rd.header, rd.body, Debug)
    /\ pc' = "written"
    /\ UNCHANGED <<stream, Debug, rd, acc, meas, parse, bsonVars, docVars, conn, clientVars>>

\* The documents handed to the constructors: an empty Document, a Document
\* with one bool field, a RawDocument that does not decode.
NewDocArgs ==
    << [t |-> "Document", fields |-> <<>>],
       [t |-> "Document",
        fields |-> <<[name |-> <<102>>, value |-> [t |-> "bool", v |-> TRUE]]>>],
       [t |-> "RawDocument", b |-> BadTagDoc] >>

AnyDocument_Encode(v) ==
    IF v.t = "Document" THEN Document_Encode(v) ELSE [res |-> "ok", b |-> v.b]

\* What doc.Encode() returns for each of them.
NewDocEncodings == [i \in 1..Len(NewDocArgs) |-> AnyDocument_Encode(NewDocArgs[i])]

\* The header of a message that was not read: all zero.
ZeroHeader == [MessageLength |-> 0, RequestID |-> 0, ResponseTo |-> 0, OpCode |-> 0]

\* The constructor of the body type, on what doc.Encode() returned.
NewBody(type, e, d) ==
    CASE type = "OpMsg"   -> NewOpMsg(e, d)
      [] type = "OpReply" -> NewOpReply(e, d)
      [] type = "OpQuery" -> NewOpQuery(e, d)

\* What a constructor leaves in the scenario: the message, or its error.
Constructed(r) ==
    IF r.res = "nil"
    THEN [res |-> "nil", header |-> ZeroHeader, body |-> r.msg, consumed |-> 0,
          set |-> "new"]
    ELSE [res |-> r.res, consumed |-> 0]

\* NewOpMsg / NewOpReply / NewOpQuery.  A constructor takes nothing from a
\* reader: the runs that construct are the ones whose reader is empty.
New ==
    /\ pc = "start" /\ Len(stream) = 0
    /\ \E i \in 1..Len(NewDocArgs), type \in {"OpMsg", "OpReply", "OpQuery"} :
          rd' = Constructed(NewBody(type, NewDocEncodings[i], Debug))
    /\ pc' = "built"
    /\ UNCHANGED <<stream, Debug, acc, out, meas, parse, bsonVars, docVars, conn, clientVars>>

\* {"x": NaN}
NaNDoc == <<16, 0, 0, 0, 1, 120, 0, 1, 0, 0, 0, 0, 0, 248, 127, 0>>

\* The section lists handed to SetSections.
SetSectionsArgs ==
    LET k0(d)      == [kind |-> 0, identifier |-> <<>>, documents |-> <<d>>]
        k1(id, ds) == [kind |-> 1, identifier |-> id, documents |-> ds]
    IN  { <<>>,
          <<k0(BoolDoc)>>,
          <<k0(BadTagDoc)>>,
          <<k0(NaNDoc)>>,
          <<k0(EmptyDoc), k1(IdentA, <<EmptyDoc, BoolDoc>>)>>,
          <<k1(IdentABCD, <<>>)>>,
          <<k0(EmptyDoc), k0(EmptyDoc)>>,
          <<k1(<<>>, <<EmptyDoc>>)>>,
          <<[kind |-> 2, identifier |-> <<>>, documents |-> <<>>]>> }

\* msg.SetSections(sections...) on the OpMsg that was read or constructed,
\* with the package toggle CheckNaNs at either value.
\* The accessors and Size leave the message as it is: the scenario changes
\* the message before it calls them.
SetSections ==
    /\ pc \in {"read", "built"} /\ rd.res = "nil" /\ rd.body.type = "OpMsg"
    /\ acc = None /\ meas = None
    /\ \E sections \in SetSectionsArgs, CheckNaNs \in BOOLEAN :
          LET r == OpMsg_SetSections(rd.body, sections, Debug, CheckNaNs)
          IN  rd' = [res |-> "nil", header |-> rd.header, body |-> r.msg,
                     consumed |-> rd.consumed, set |-> r.res]
    /\ pc' = "built"
    /\ UNCHANGED <<stream, Debug, acc, out, meas, parse, bsonVars, docVars, conn, clientVars>>

\* body.Size() and body.MarshalBinary() of the message held.  The files that
\* define Size marshal without consulting Debug.
Measure ==
    /\ pc \in {"read", "built"} /\ rd.res = "nil" /\ meas = None /\ acc = None
    /\ meas' = [size |-> Body_Size(rd.body), m |-> Body_MarshalBinary(rd.body, FALSE)]
    /\ UNCHANGED <<stream, Debug, pc, rd, acc, out, parse, bsonVars, docVars, conn, clientVars>>

NextMsg == Read \/ CallAccessor \/ Write \/ New \/ SetSections \/ Measure

SpecMsg == InitMsg /\ [][NextMsg]_vars


-----------------------------------------------------------------------------
(* Claims about the wire scenario.                                         *)

IsOpMsgStream == Len(stream) >= MsgHeaderLen /\ Int32LE(stream, 12) = OpCodeMsg

Kind0Count(sections) == Cardinality({i \in 1..Len(sections) : sections[i].kind = 0})

\* C1: whenever ReadMessage succeeded, WriteMessage of the returned header and
\* body succeeds and emits exactly the bytes that ReadMessage consumed.
C1_FramingRoundTrip ==
    pc = "written" =>
        /\ out.res = "nil"
        /\ out.b = SubSeq(stream, 1, rd.consumed)

\* An OP_MSG with the checksum flag, a kind-0 and a kind-1 section with a
\* document, read from a stream with bytes left over, has been written back.
C1_Witness ==
    /\ pc = "written" /\ out.res = "nil"
    /\ rd.body.type = "OpMsg"
    /\ ChecksumPresent(rd.body.Flags)
    /\ Kind0Count(rd.body.sections) = 1
    /\ \E i \in 1..Len(rd.body.sections) :
           rd.body.sections[i].kind = 1 /\ Len(rd.body.sections[i].documents) > 0
    /\ rd.consumed < Len(stream)

\* C3: OpMsg.UnmarshalBinaryNocopy returns nil or an error on every byte
\* slice; it never panics (never indexes at or beyond len(b)).
C3_UnmarshalNeverPanics ==
    (pc = "read" /\ IsOpMsgStream) => rd.res # "panic"

\* C4: every OpMsg that passed section validation holds exactly one section
\* of kind 0.
C4_ExactlyOneKind0 ==
    (pc = "read" /\ rd.res = "nil" /\ rd.body.type = "OpMsg")
        => Kind0Count(rd.body.sections) = 1

\* C5: on every OpMsg that ReadMessage accepted, every accessor returns a
\* value or an error; none panics.
C5_AccessorsNeverPanic ==
    acc # None => acc.r.res # "panic"

\* C12: every message body that a constructor, SetSections or
\* UnmarshalBinaryNocopy produced has a Size() that does not panic and is the
\* length of what MarshalBinary returns.
C12_SizeIsMarshalledLength ==
    meas # None =>
        /\ meas.size # -1
        /\ meas.m.res = "ok"
        /\ Len(meas.m.b) = meas.size

\* An OpMsg with the checksum flag whose sections were replaced by a kind-0
\* and a kind-1 section with documents has been measured.
C12_Witness ==
    /\ meas # None /\ pc = "built" /\ rd.body.type = "OpMsg"
    /\ rd.set = "nil"
    /\ ChecksumPresent(rd.body.Flags)
    /\ \E i \in 1..Len(rd.body.sections) :
           rd.body.sections[i].kind = 1 /\ Len(rd.body.sections[i].documents) > 1
    /\ meas.size = Len(meas.m.b)

\* A kind-1 section with the identifier id and no documents; its size counts
\* the size field and the identifier with its terminator.
Kind1NoDocuments(id) == <<1>> \o PutUint32(4 + SizeCString(id)) \o EncodeCString(id)

\* An OP_MSG body: no flags, a kind-0 section with the empty document, then
\* the kind-1 section with identifier id and no documents.
Kind0ThenEmptyKind1(id) == PutUint32(0) \o <<0>> \o EmptyDoc \o Kind1NoDocuments(id)

\* C13: an OP_MSG body of one valid kind-0 section and a kind-1 section with a
\* non-empty identifier, of one character or of four, and no documents is
\* accepted, and the kind-1 section is returned with that identifier.
C13_ShortIdentifierAccepted ==
    \A id \in {IdentA, IdentABCD} :
        (/\ pc = "read"
         /\ Len(stream) >= MsgHeaderLen
         /\ Int32LE(stream, 12) = OpCodeMsg
         /\ Int32LE(stream, 0) = MsgHeaderLen + Len(Kind0ThenEmptyKind1(id))
         /\ From(stream, MsgHeaderLen) = Kind0ThenEmptyKind1(id))
            => /\ rd.res = "nil"
               /\ Len(rd.body.sections) = 2
               /\ rd.body.sections[2] =
                      [kind |-> 1, identifier |-> id, documents |-> <<>>]

\* C14: a message is returned only when the length field of the header is
\* within 16..MaxMsgLen; on every length outside it, negative ones included,
\* the read fails with an error after the 16 header bytes, with none of the
\* bytes that follow taken from the reader.
C14_LengthBounds ==
    (pc = "read" /\ Len(stream) >= MsgHeaderLen) =>
        LET l == Int32LE(stream, 0)
        IN  /\ rd.res = "nil" => (MsgHeaderLen <= l /\ l <= MaxMsgLen)
            /\ (l < MsgHeaderLen \/ l > MaxMsgLen)
                   => (rd.res = "error" /\ rd.consumed = MsgHeaderLen)

\* A header with a negative length, followed by body bytes, was refused.
C14_Witness ==
    /\ pc = "read" /\ Len(stream) > MsgHeaderLen
    /\ Int32LE(stream, 0) < 0
    /\ rd.res = "error" /\ rd.consumed = MsgHeaderLen

\* The opcodes that msg_header.go defines.
OpCodes == {OpCodeReply} \cup (2001..2007) \cup {OpCodeCompressed, OpCodeMsg}

\* C15: a header whose opcode is not a defined one is refused with an error
\* by the read of the header, that is before any byte of the body is taken.
C15_UnknownOpCodeRejectedAtHeader ==
    (/\ pc = "read" /\ Len(stream) >= MsgHeaderLen
     /\ Int32LE(stream, 0) >= MsgHeaderLen /\ Int32LE(stream, 0) <= MaxMsgLen
     /\ Int32LE(stream, 12) \notin OpCodes)
        => (rd.res = "error" /\ rd.consumed = MsgHeaderLen)

\* C16: a reader with no bytes gives ErrZeroRead; a reader that ends after 1
\* to 15 bytes gives an error that is not ErrZeroRead.
C16_ZeroReadOnlyOnEmpty ==
    pc = "read" =>
        /\ Len(stream) = 0 => rd.res = "ErrZeroRead"
        /\ (0 < Len(stream) /\ Len(stream) < MsgHeaderLen) => rd.res = "error"

\* A reader that ended after 15 bytes of a header was refused with an error.
C16_Witness ==
    /\ pc = "read" /\ Len(stream) = MsgHeaderLen - 1
    /\ rd.res = "error" /\ rd.consumed = MsgHeaderLen - 1

\* The stream holds a whole OP_REPLY message with the 20 fixed body bytes.
IsOpReplyStream ==
    /\ Len(stream) >= MsgHeaderLen
    /\ Int32LE(stream, 12) = OpCodeReply
    /\ Int32LE(stream, 0) >= MsgHeaderLen + 20
    /\ Int32LE(stream, 0) <= Len(stream)

\* number_returned of the OP_REPLY in the stream, and whether bytes of a
\* document follow the 20 fixed bytes.
ReplyNumberReturned == Int32LE(stream, MsgHeaderLen + 16)
ReplyDocumentFollows == Int32LE(stream, 0) > MsgHeaderLen + 20

\* C17: an OP_REPLY body is accepted only if number_returned is 0 or 1 and
\* is 1 exactly when a document follows the 20 fixed bytes; every other
\* combination ends in an error.
C17_NumberReturnedConsistent ==
    (pc = "read" /\ IsOpReplyStream) =>
        LET ok == /\ ReplyNumberReturned \in {0, 1}
                  /\ (ReplyNumberReturned = 1) <=> ReplyDocumentFollows
        IN  /\ rd.res = "nil" => ok
            /\ ~ok => rd.res = "error"
            /\ rd.res = "nil" =>
                   rd.body.document = Sl(stream, MsgHeaderLen + 20, Int32LE(stream, 0))

\* An OP_REPLY with number_returned 0 in front of an empty document was
\* refused.
C17_Witness ==
    /\ pc = "read" /\ IsOpReplyStream /\ rd.res = "error"
    /\ ReplyNumberReturned = 0 /\ ReplyDocumentFollows
    /\ Sl(stream, MsgHeaderLen + 20, Int32LE(stream, 0)) = EmptyDoc


-----------------------------------------------------------------------------
(* The parse scenario: OpMsg.UnmarshalBinaryNocopy on a body, one loop     *)
(* iteration per step.                                                     *)

InitParse ==
    /\ parse \in {ParseStart(b, d) : b \in MsgBodies, d \in BOOLEAN}
    /\ stream = <<>> /\ Debug = FALSE /\ pc = "idle"
    /\ rd = None /\ acc = None /\ out = None /\ meas = None
    /\ IdleBson /\ IdleDoc /\ IdleConn

ParseSection ==
    /\ parse # None /\ parse.at = "section"
    /\ parse' = sectionStep(parse)
    /\ UNCHANGED <<stream, Debug, pc, rd, acc, out, meas, bsonVars, docVars, conn, clientVars>>

ParseDocument ==
    /\ parse # None /\ parse.at = "document"
    /\ parse' = documentStep(parse)
    /\ UNCHANGED <<stream, Debug, pc, rd, acc, out, meas, bsonVars, docVars, conn, clientVars>>

ParseChecks ==
    /\ parse # None /\ parse.at = "checks"
    /\ parse' = checksStep(parse)
    /\ UNCHANGED <<stream, Debug, pc, rd, acc, out, meas, bsonVars, docVars, conn, clientVars>>

NextParse == ParseSection \/ ParseDocument \/ ParseChecks

\* The function runs on its own goroutine stack with nothing to wait for:
\* a step that can be taken is taken.
SpecParse == InitParse /\ [][NextParse]_vars /\ WF_vars(NextParse)

ParseReturned == parse.at \in {"nil", "error", "panic"}

\* What one step of the parse does to offset and secSize.
ParseProgress ==
    /\ (parse.at = "section" /\ parse'.at \in {"section", "document", "checks"})
          => parse'.offset > parse.offset
    /\ (parse.at = "document" /\ parse'.at = "document")
          => /\ parse'.secSize < parse.secSize
             /\ parse'.offset > parse.offset
    /\ parse'.offset <= Len(parse.b)

\* C18: OpMsg.UnmarshalBinaryNocopy returns on every body: an iteration of
\* the section loop that does not return leaves a larger offset, an
\* iteration of the document loop that does not return leaves a smaller
\* secSize (and a larger offset), and the function eventually returns.
C18_UnmarshalTerminates == [][ParseProgress]_vars /\ <>ParseReturned

\* A body with two sections, the second of kind 1 with two documents, was
\* parsed to the end: the document loop ran three times.
C18_Witness ==
    /\ parse # None /\ parse.at = "nil"
    /\ Len(parse.sections) = 2
    /\ parse.sections[2].kind = 1 /\ Len(parse.sections[2].documents) = 2
    /\ parse.offset = Len(parse.b)

\* The steps compute what UnmarshalBinaryNocopy computes.
ParseAgrees ==
    (parse # None /\ ParseReturned) =>
        LET r == OpMsg_UnmarshalBinaryNocopy(parse.b, parse.d)
        IN  /\ r.res = parse.at
            /\ r.res = "nil" => r.msg.sections = parse.sections

-----------------------------------------------------------------------------
(* The codec scenario: a byte string is decoded as a BSON document,        *)
(* shallowly or deeply, and the decoded Document is encoded again.         *)

MaxFields == 2

\* Encoded fields: every scalar the decoder accepts, nested documents and
\* arrays, and malformed ones (unknown tag, bad bool, truncated int32,
\* array with a wrong index, unterminated name, nested document with a wrong
\* last byte or a length that reaches beyond it).
FieldChunks ==
    { <<8, 102, 0, 1>>,
      <<16, 97, 0, 5, 0, 0, 0>>,
      <<10, 110, 0>>,
      <<6, 117, 0>>,
      <<2, 115, 0, 2, 0, 0, 0, 120, 0>>,
      <<1, 120, 0, 0, 0, 0, 0, 0, 0, 240, 63>>,
      <<11, 114, 0, 97, 0, 105, 0>>,
      <<5, 98, 0, 1, 0, 0, 0, 128, 42>>,
      <<7, 111, 0, 1, 2, 3, 4, 5, 6, 7, 8, 9, 10, 11, 12>>,
      <<9, 116, 0, 1, 0, 0, 0, 0, 0, 0, 0>>,
      <<17, 115, 0, 2, 0, 0, 0, 1, 0, 0, 0>>,
      <<18, 108, 0, 255, 255, 255, 255, 255, 255, 255, 255>>,
      <<19, 109, 0, 1, 0, 0, 0, 0, 0, 0, 0, 0, 0, 0, 0, 0, 0, 64, 48>>,
      <<3, 100, 0>> \o EmptyDoc,
      <<3, 100, 0>> \o BoolDoc,
      <<4, 97, 0>> \o EmptyDoc,
      <<4, 97, 0, 9, 0, 0, 0, 8, 48, 0, 1, 0>>,
      <<4, 97, 0, 9, 0, 0, 0, 8, 49, 0, 1, 0>>,
      <<3, 100, 0>> \o BadTagDoc,
      <<3, 100, 0, 5, 0, 0, 0, 48>>,
      <<3, 100, 0, 6, 0, 0, 0, 0>>,
      <<99, 0>>,
      <<8, 102, 0, 2>>,
      <<16, 97, 0, 5>>,
      <<8, 102>> }

RECURSIVE FieldStrings(_)
FieldStrings(n) ==
    IF n = 0 THEN {<<>>}
    ELSE {<<>>} \cup {c \o t : c \in FieldChunks, t \in FieldStrings(n - 1)}

\* Documents with a right or wrong length prefix and with or without the
\* terminator.
RawDocs ==
    {PutUint32(4 + Len(fs) + Len(term) + delta) \o fs \o term :
        fs \in FieldStrings(MaxFields), term \in {<<0>>, <<>>, <<0, 0>>},
        delta \in {0, 1}}

\* Byte strings around the limits of FindRaw: shorter than five bytes, a
\* length prefix below five, above the length of the slice or above 2^31,
\* a last byte that is not zero, bytes after the document.
OddRaws ==
    { <<>>, <<5>>, <<5, 0, 0, 0>>, <<4, 0, 0, 0>>,
      <<4, 0, 0, 0, 0>>, <<0, 0, 0, 0, 0, 0>>, <<3, 0, 0, 0, 0, 0, 0>>,
      <<5, 0, 0, 0, 1>>, <<5, 0, 0, 0, 0, 1>>, <<5, 0, 0, 0, 0, 0, 7>>,
      <<6, 0, 0, 0, 0, 1, 0>>, <<7, 0, 0, 0, 0, 0>>,
      <<5, 1, 0, 0, 0, 0>>, <<5, 0, 0, 128, 0>> }

\* Encoded array elements: named by the right index at the first or the
\* second place, named "x", a nested array that is itself wrongly indexed,
\* a bool that is not 0 or 1.
ArrayChunks ==
    { <<8, 48, 0, 1>>,
      <<8, 49, 0, 0>>,
      <<16, 49, 0, 5, 0, 0, 0>>,
      <<8, 120, 0, 1>>,
      <<4, 48, 0, 9, 0, 0, 0, 8, 49, 0, 1, 0>>,
      <<4, 49, 0, 9, 0, 0, 0, 8, 48, 0, 1, 0>>,
      <<8, 48, 0, 2>> }

RECURSIVE ArrayStrings(_)
ArrayStrings(n) ==
    IF n = 0 THEN {<<>>}
    ELSE {<<>>} \cup {c \o t : c \in ArrayChunks, t \in ArrayStrings(n - 1)}

\* Arrays of up to MaxFields elements, with a right length prefix and
\* terminator.
RawArrays == {PutUint32(5 + Len(es)) \o es \o <<0>> : es \in ArrayStrings(MaxFields)}

\* The tags the decoder knows and does not support: Undefined, DBPointer,
\* JavaScript, Symbol, JavaScriptScope, MinKey, MaxKey.
UnsupportedTags == {6, 12, 13, 14, 15, 255, 127}

\* The document whose only field, named "f", has tag tg and no value bytes.
TagDoc(tg) == <<8, 0, 0, 0, tg, 102, 0, 0>>

\* TagDoc for every unsupported tag, alone and nested in a document as the
\* field "d".
TagRaws ==
    {TagDoc(tg) : tg \in UnsupportedTags}
        \cup {<<16, 0, 0, 0, 3, 100, 0>> \o TagDoc(tg) \o <<0>> : tg \in UnsupportedTags}

InitBson ==
    /\ raw \in RawDocs \cup OddRaws \cup RawArrays \cup TagRaws
    /\ dec = None /\ enc = None /\ sz = None /\ found = None
    /\ adec = None /\ cmp = None
    /\ IdleMsg /\ IdleDoc /\ IdleConn

\* raw.Decode().
DecodeShallowStep ==
    /\ dec = None
    /\ dec' = [mode |-> decodeShallow, r |-> Decode(raw)]
    /\ UNCHANGED <<raw, enc, sz, found, adec, cmp, msgVars, docVars, conn, clientVars>>

\* raw.DecodeDeep().
DecodeDeepStep ==
    /\ dec = None
    /\ dec' = [mode |-> decodeDeep, r |-> DecodeDeep(raw)]
    /\ UNCHANGED <<raw, enc, sz, found, adec, cmp, msgVars, docVars, conn, clientVars>>

\* doc.Encode() on the decoded Document.
EncodeStep ==
    /\ dec # None /\ dec.r.err = "" /\ enc = None
    /\ enc' = Document_Encode(dec.r.v)
    /\ UNCHANGED <<raw, dec, sz, found, adec, cmp, msgVars, docVars, conn, clientVars>>

\* The encoding of any value: Encode of a Document or Array, the bytes of a
\* raw composite, encodeScalarValue of a scalar, which panics on other types.
EncodeValue(v) ==
    CASE v.t = "Document" -> Document_Encode(v)
      [] v.t = "Array"    -> Array_Encode(v)
      [] v.t \in {"RawDocument", "RawArray"} -> [res |-> "ok", b |-> v.b]
      [] v.t \in ScalarTypes -> [res |-> "ok", b |-> encodeScalarValue(v)]
      [] OTHER -> [res |-> "panic", b |-> <<>>]

\* Size(v) and the encoding of v, for the decoded Document (i = 0) or the
\* value of its i-th field.
SizeStep ==
    /\ dec # None /\ dec.r.err = "" /\ sz = None
    /\ \E i \in 0..Len(dec.r.v.fields) :
          LET v == IF i = 0 THEN dec.r.v ELSE dec.r.v.fields[i].value
          IN  sz' = [v |-> v, size |-> Size(v), enc |-> EncodeValue(v)]
    /\ UNCHANGED <<raw, dec, enc, found, adec, cmp, msgVars, docVars, conn, clientVars>>

\* RawArray(raw).Decode() or RawArray(raw).DecodeDeep().
DecodeArrayStep ==
    /\ adec = None /\ dec = None /\ found = None
    /\ \E mode \in {decodeShallow, decodeDeep} :
          adec' = [mode |-> mode, r |-> RawArray_decode(raw, mode)]
    /\ UNCHANGED <<raw, dec, enc, sz, found, cmp, msgVars, docVars, conn, clientVars>>

\* FindRaw(raw).
FindRawStep ==
    /\ found = None
    /\ found' = FindRaw(raw)
    /\ UNCHANGED <<raw, dec, enc, sz, adec, cmp, msgVars, docVars, conn, clientVars>>

NextBson ==
    \/ DecodeShallowStep \/ DecodeDeepStep \/ EncodeStep \/ SizeStep \/ FindRawStep
    \/ DecodeArrayStep

SpecBson == InitBson /\ [][NextBson]_vars

\* C2: when decoding b succeeds, shallowly or deeply, encoding the decoded
\* Document succeeds and yields exactly b.
C2_DecodeEncodeRoundTrip ==
    enc # None => (enc.res = "ok" /\ enc.b = raw)

\* The little-endian length prefix of raw (0 when raw has no four bytes).
RawPrefix == IF Len(raw) >= 4 THEN Uint32(raw, 0) ELSE 0

\* C19: FindRaw returns the length prefix L, with no error, exactly when
\* len(b) >= 5, L >= 5, len(b) >= L and b[L-1] = 0.  Otherwise the error is
\* ShortInput when len(b) < 5 or len(b) < L, and InvalidInput when L < 5 or
\* b[L-1] # 0 (the tests apply in this order: a slice shorter than five bytes
\* is short whatever its prefix says).  The bytes from position L on are not
\* part of the condition, so they cannot change the result.
C19_FindRawCharacterised ==
    found # None =>
        LET bl == Len(raw)
            L  == RawPrefix
        IN  /\ found.err = "" <=> (bl >= 5 /\ L >= 5 /\ bl >= L /\ raw[L] = 0)
            /\ found.err = "" => found.l = L
            /\ (bl < 5 \/ (L >= 5 /\ bl < L)) => found.err = ErrDecodeShortInput
            /\ (bl >= 5 /\ (L < 5 \/ (bl >= L /\ raw[L] # 0)))
                   => found.err = ErrDecodeInvalidInput
            /\ found.err = "" => FindRaw(SubSeq(raw, 1, L)) = found

\* FindRaw accepted a document that has a non-zero byte after it.
C19_Witness ==
    /\ found # None /\ found.err = ""
    /\ found.l < Len(raw) /\ raw[Len(raw)] # 0

\* The document with no other field than a nested document (tag 3, name
\* "d") or array (tag 4, name "a") with the bytes sub.
NestedRaw(tg, sub) ==
    LET f == <<tg, IF tg = 3 THEN 100 ELSE 97, 0>> \o sub
    IN  PutUint32(5 + Len(f)) \o f \o <<0>>

\* Nested composites whose length prefix and last byte are right and whose
\* content is not: a document with an unknown tag, an array whose element
\* is named "1".
MalformedInside == {<<3, BadTagDoc>>, <<4, <<9, 0, 0, 0, 8, 49, 0, 1, 0>>>>}

\* Nested documents whose last byte or length prefix is wrong.
MalformedDelimiters == {<<3, <<5, 0, 0, 0, 48>>>>, <<3, <<6, 0, 0, 0, 0>>>>}

\* C20 as stated: when the only malformation of a document is inside a
\* nested document or array, Decode succeeds and returns the nested composite
\* raw, and DecodeDeep returns an error.
C20_NestedErrorsOnlyDeep ==
    \A n \in MalformedInside \cup MalformedDelimiters :
        (dec # None /\ raw = NestedRaw(n[1], n[2])) =>
            IF dec.mode = decodeShallow
            THEN /\ dec.r.err = ""
                 /\ Len(dec.r.v.fields) = 1
                 /\ dec.r.v.fields[1].value.b = n[2]
            ELSE dec.r.err # ""

\* C20, amended: when the only malformation is in the content of a nested
\* document or array whose own length prefix and last byte are right, Decode
\* succeeds and returns the nested composite raw and DecodeDeep returns an
\* error; a nested composite with a wrong length prefix or last byte makes
\* Decode fail as well.
C20_NestedContentErrorsOnlyDeep ==
    /\ \A n \in MalformedInside :
          (dec # None /\ raw = NestedRaw(n[1], n[2])) =>
              IF dec.mode = decodeShallow
              THEN /\ dec.r.err = ""
                   /\ Len(dec.r.v.fields) = 1
                   /\ dec.r.v.fields[1].value.b = n[2]
              ELSE dec.r.err # ""
    /\ \A n \in MalformedDelimiters :
          (dec # None /\ raw = NestedRaw(n[1], n[2])) => dec.r.err # ""

\* A document holding a nested document with an unknown tag was decoded
\* shallowly: no error, and the nested document came back raw.
C20_Witness ==
    /\ dec # None /\ dec.mode = decodeShallow /\ dec.r.err = ""
    /\ raw = NestedRaw(3, BadTagDoc)
    /\ dec.r.v.fields[1].value = [t |-> "RawDocument", b |-> BadTagDoc]


-----------------------------------------------------------------------------
(* package wirebson: the mutators of Document and Array.  A Document is    *)
(* [fields, frozen] with fields a sequence of [name, value]; an Array is   *)
(* [elements, frozen].  Each mutator returns the instance after the call   *)
(* and res: "nil", "error" (the returned error) or "panic".                *)

\* A Freeze that toggles the flag.
Document_FreezeFlips(d) == [d EXCEPT !.frozen = ~d.frozen]

\* Document.Freeze.
Document_Freeze(d) == [d EXCEPT !.frozen = TRUE]

\* Document.checkFrozen / Array.checkFrozen: TRUE when it panics.
checkFrozen(d) == d.frozen

\* Add with checkFrozen ahead of validBSONType.
Document_AddFrozenFirst(d, name, value) ==
    IF checkFrozen(d) THEN [res |-> "panic", doc |-> d]
    ELSE IF ~validBSONType(value) THEN [res |-> "error", doc |-> d]
    ELSE [res |-> "nil",
          doc |-> [d EXCEPT !.fields = Append(@, [name |-> name, value |-> value])]]

\* Document.Add: validBSONType, then checkFrozen, then append.
Document_Add(d, name, value) ==
    IF ~validBSONType(value) THEN [res |-> "error", doc |-> d]
    ELSE IF checkFrozen(d) THEN [res |-> "panic", doc |-> d]
    ELSE [res |-> "nil",
          doc |-> [d EXCEPT !.fields = Append(@, [name |-> name, value |-> value])]]

\* The index of the first field called name, 0 if there is none.
FirstIndex(fields, name) ==
    IF \E i \in 1..Len(fields) : fields[i].name = name
    THEN CHOOSE i \in 1..Len(fields) :
             /\ fields[i].name = name
             /\ \A j \in 1..(i - 1) : fields[j].name # name
    ELSE 0

\* slices.DeleteFunc that deletes position i only.
DeleteAt(fields, i) ==
    [k \in 1..(Len(fields) - 1) |-> IF k < i THEN fields[k] ELSE fields[k + 1]]

\* Remove without checkFrozen.
Document_RemoveUnchecked(d, name) ==
    LET i == FirstIndex(d.fields, name)
    IN  IF i = 0 THEN [res |-> "nil", doc |-> d]
        ELSE [res |-> "nil", doc |-> [d EXCEPT !.fields = DeleteAt(@, i)]]

\* slices.DeleteFunc with a closure that deletes every field called name.
RECURSIVE DeleteFuncEveryNamed(_, _, _, _)
DeleteFuncEveryNamed(fields, name, i, wasFound) ==
    IF i > Len(fields) THEN <<>>
    ELSE IF fields[i].name # name
    THEN <<fields[i]>> \o DeleteFuncEveryNamed(fields, name, i + 1, wasFound)
    ELSE DeleteFuncEveryNamed(fields, name, i + 1, TRUE)

\* slices.DeleteFunc with the closure of Remove, from position i on: the
\* closure is called on each field in order; it keeps a field with another
\* name, keeps a field called name once the flag is set, and otherwise sets
\* the flag and deletes the field.
RECURSIVE DeleteFuncFirstNamed(_, _, _, _)
DeleteFuncFirstNamed(fields, name, i, wasFound) ==
    IF i > Len(fields) THEN <<>>
    ELSE IF fields[i].name # name
    THEN <<fields[i]>> \o DeleteFuncFirstNamed(fields, name, i + 1, wasFound)
    ELSE IF wasFound
    THEN <<fields[i]>> \o DeleteFuncFirstNamed(fields, name, i + 1, wasFound)
    ELSE DeleteFuncFirstNamed(fields, name, i + 1, TRUE)

\* Document.Remove: checkFrozen, then slices.DeleteFunc over the fields.
Document_Remove(d, name) ==
    IF checkFrozen(d) THEN [res |-> "panic", doc |-> d]
    ELSE [res |-> "nil",
          doc |-> [d EXCEPT !.fields = DeleteFuncFirstNamed(@, name, 1, FALSE)]]

\* Document.Replace: validBSONType, then checkFrozen, then the value of the
\* first field called name is set.
Document_Replace(d, name, value) ==
    IF ~validBSONType(value) THEN [res |-> "error", doc |-> d]
    ELSE IF checkFrozen(d) THEN [res |-> "panic", doc |-> d]
    ELSE LET i == FirstIndex(d.fields, name)
         IN  IF i = 0 THEN [res |-> "nil", doc |-> d]
             ELSE [res |-> "nil", doc |-> [d EXCEPT !.fields[i].value = value]]

\* Array.Freeze.
Array_Freeze(a) == [a EXCEPT !.frozen = TRUE]

\* Array.Add.
Array_Add(a, value) ==
    IF ~validBSONType(value) THEN [res |-> "error", arr |-> a]
    ELSE IF checkFrozen(a) THEN [res |-> "panic", arr |-> a]
    ELSE [res |-> "nil", arr |-> [a EXCEPT !.elements = Append(@, value)]]

\* Array.Replace with a zero-based index: validBSONType, checkFrozen, then
\* the index expression, which panics out of range.
Array_Replace(a, index, value) ==
    IF ~validBSONType(value) THEN [res |-> "error", arr |-> a]
    ELSE IF checkFrozen(a) THEN [res |-> "panic", arr |-> a]
    ELSE IF index < 0 \/ index >= Len(a.elements) THEN [res |-> "panic", arr |-> a]
    ELSE [res |-> "nil", arr |-> [a EXCEPT !.elements[index + 1] = value]]

\* arraySort.Swap(i, j): Get(i), Replace(i, Get(j)), Replace(j, a); the
\* errors of Replace are dropped, its panics are not.
arraySort_Swap(a, i, j) ==
    IF i < 0 \/ i >= Len(a.elements) \/ j < 0 \/ j >= Len(a.elements)
    THEN [res |-> "panic", arr |-> a]
    ELSE LET r1 == Array_Replace(a, i, a.elements[j + 1])
         IN  IF r1.res = "panic" THEN r1
             ELSE LET r2 == Array_Replace(r1.arr, j, a.elements[i + 1])
                  IN  IF r2.res = "panic" THEN r2
                      ELSE [res |-> "nil", arr |-> r2.arr]


-----------------------------------------------------------------------------
(* The mutation scenario: one Document or one Array is built, frozen and   *)
(* mutated by a caller that recovers from panics.  The Document is new or  *)
(* is the one OpMsg.Document() returned.  last is the last call and its    *)
(* outcome; hist remembers where the instance came from and what it held   *)
(* when it was first frozen.                                               *)

MaxLen == 2

NameF == <<102>>
NameG == <<103>>
Names == {NameF, NameG}

\* Two valid values and a Go value that is not a BSON type.
Values == {[t |-> "bool", v |-> TRUE], [t |-> "NullType"], [t |-> "invalid"]}

\* {"f": true, "f": false}
DupDoc == <<13, 0, 0, 0, 8, 102, 0, 1, 8, 102, 0, 0, 0>>

\* Messages with a single kind-0 section, as OpMsg.UnmarshalBinaryNocopy
\* returns them.
DocMsgs ==
    {OpMsg_UnmarshalBinaryNocopy(PutUint32(0) \o <<0>> \o d, FALSE).msg :
        d \in {EmptyDoc, BoolDoc, DupDoc}}

Call(op, name, res, wasFrozen, valid) ==
    [op |-> op, name |-> name, res |-> res, wasFrozen |-> wasFrozen, valid |-> valid]

Hist(target, origin, d, a) ==
    [target |-> target, origin |-> origin,
     docSet |-> d.frozen, docAt |-> d.fields,
     arrSet |-> a.frozen, arrAt |-> a.elements]

EmptyArr == [elements |-> <<>>, frozen |-> FALSE]

InitDoc ==
    /\ \/ /\ doc = NewDoc(<<>>, FALSE)
          /\ \E target \in {"doc", "arr"} : hist = Hist(target, "NewDocument", doc, EmptyArr)
       \/ \E name \in {"Document", "Document_frozen"}, msg \in DocMsgs :
              /\ Access(name, msg).res = "ok"
              /\ doc = Access(name, msg).doc
              /\ hist = Hist("doc", name, doc, EmptyArr)
    /\ arr = EmptyArr
    /\ last = NoCall
    /\ IdleMsg /\ IdleBson /\ IdleConn

\* hist after a call that left the instances as d and a: the contents at the
\* first Freeze are kept.
Remember(d, a) ==
    [hist EXCEPT !.docSet = hist.docSet \/ d.frozen,
                 !.docAt  = IF hist.docSet THEN hist.docAt ELSE d.fields,
                 !.arrSet = hist.arrSet \/ a.frozen,
                 !.arrAt  = IF hist.arrSet THEN hist.arrAt ELSE a.elements]

DocAdd ==
    /\ hist.target = "doc"
    /\ doc.frozen \/ Len(doc.fields) < MaxLen
    /\ \E name \in Names, value \in Values :
          LET r == Document_Add(doc, name, value)
          IN  /\ doc' = r.doc
              /\ last' = Call("Add", name, r.res, doc.frozen, validBSONType(value))
              /\ hist' = Remember(r.doc, arr)
    /\ UNCHANGED <<arr, msgVars, bsonVars, conn, clientVars>>

DocReplace ==
    /\ hist.target = "doc"
    /\ \E name \in Names, value \in Values :
          LET r == Document_Replace(doc, name, value)
          IN  /\ doc' = r.doc
              /\ last' = Call("Replace", name, r.res, doc.frozen, validBSONType(value))
              /\ hist' = Remember(r.doc, arr)
    /\ UNCHANGED <<arr, msgVars, bsonVars, conn, clientVars>>

DocRemove ==
    /\ hist.target = "doc"
    /\ \E name \in Names :
          LET r == Document_Remove(doc, name)
          IN  /\ doc' = r.doc
              /\ last' = Call("Remove", name, r.res, doc.frozen, TRUE)
              /\ hist' = Remember(r.doc, arr)
    /\ UNCHANGED <<arr, msgVars, bsonVars, conn, clientVars>>

DocFreeze ==
    /\ hist.target = "doc"
    /\ doc' = Document_Freeze(doc)
    /\ last' = Call("Freeze", <<>>, "nil", doc.frozen, TRUE)
    /\ hist' = Remember(doc', arr)
    /\ UNCHANGED <<arr, msgVars, bsonVars, conn, clientVars>>

ArrAdd ==
    /\ hist.target = "arr"
    /\ arr.frozen \/ Len(arr.elements) < MaxLen
    /\ \E value \in Values :
          LET r == Array_Add(arr, value)
          IN  /\ arr' = r.arr
              /\ last' = Call("Add", <<>>, r.res, arr.frozen, validBSONType(value))
              /\ hist' = Remember(doc, r.arr)
    /\ UNCHANGED <<doc, msgVars, bsonVars, conn, clientVars>>

ArrReplace ==
    /\ hist.target = "arr"
    /\ \E index \in 0..MaxLen, value \in Values :
          LET r == Array_Replace(arr, index, value)
          IN  /\ arr' = r.arr
              /\ last' = Call("Replace", <<index>>, r.res, arr.frozen, validBSONType(value))
              /\ hist' = Remember(doc, r.arr)
    /\ UNCHANGED <<doc, msgVars, bsonVars, conn, clientVars>>

\* One Swap of sort.Sort(arr.SortInterface(less)).
ArrSwap ==
    /\ hist.target = "arr"
    /\ \E i \in 0..(Len(arr.elements) - 1), j \in 0..(Len(arr.elements) - 1) :
          LET r == arraySort_Swap(arr, i, j)
          IN  /\ arr' = r.arr
              /\ last' = Call("Swap", <<i, j>>, r.res, arr.frozen, TRUE)
              /\ hist' = Remember(doc, r.arr)
    /\ UNCHANGED <<doc, msgVars, bsonVars, conn, clientVars>>

ArrFreeze ==
    /\ hist.target = "arr"
    /\ arr' = Array_Freeze(arr)
    /\ last' = Call("Freeze", <<>>, "nil", arr.frozen, TRUE)
    /\ hist' = Remember(doc, arr')
    /\ UNCHANGED <<doc, msgVars, bsonVars, conn, clientVars>>

NextDoc ==
    \/ DocAdd \/ DocReplace \/ DocRemove \/ DocFreeze
    \/ ArrAdd \/ ArrReplace \/ ArrSwap \/ ArrFreeze

SpecDoc == InitDoc /\ [][NextDoc]_vars

Mutators == {"Add", "Replace", "Remove"}

\* The instance the behaviour is about was frozen when the last call began.
Target == IF hist.target = "doc" THEN doc ELSE arr

\* C6: once a Document or Array has been frozen, its fields or elements are
\* what they were at that moment, whatever calls followed and however they
\* ended.
C6_FrozenContentsFixed ==
    /\ hist.docSet => doc.fields = hist.docAt
    /\ hist.arrSet => arr.elements = hist.arrAt

\* Remove of an existing field of a frozen Document has panicked.
C6_Witness ==
    /\ hist.target = "doc" /\ hist.origin = "NewDocument"
    /\ last.op = "Remove" /\ last.wasFrozen /\ last.res = "panic"
    /\ FirstIndex(doc.fields, last.name) # 0

\* C7 as stated: on a frozen instance every Add, Replace and Remove panics,
\* whatever the name and the value.
C7_EveryMutatorPanics ==
    (last.op \in Mutators /\ last.wasFrozen)
        => last.res = "panic"

\* C7 as the code has it: on a frozen instance Remove panics, and Add and
\* Replace panic when the value is a BSON value; with any other value they
\* return an error, since the type is validated before the frozen flag.
C7_MutatorsPanicOnValidValue ==
    (last.op \in Mutators /\ last.wasFrozen)
        => last.res = (IF last.valid THEN "panic" ELSE "error")

\* Add of an invalid value on a frozen Document has returned an error.
C7_Witness ==
    /\ hist.target = "doc"
    /\ last.op = "Add" /\ last.wasFrozen /\ ~last.valid /\ last.res = "error"

\* C8: Freeze leaves the instance frozen, also when it was frozen before, and
\* an instance that was frozen once is frozen ever after.
C8_FreezeIdempotentIrreversible ==
    /\ hist.docSet => doc.frozen
    /\ hist.arrSet => arr.frozen
    /\ last.op = "Freeze" => Target.frozen

\* Freeze has been called on a Document that was frozen already.
C8_Witness ==
    /\ hist.target = "doc"
    /\ last.op = "Freeze" /\ last.wasFrozen /\ doc.frozen

\* C9: every Add, Replace or Remove with a valid value on the Document that
\* OpMsg.Document() returned panics.
C9_DocumentFromOpMsgFrozen ==
    (hist.origin \in {"Document", "Document_frozen"}
        /\ last.op \in Mutators /\ last.valid)
        => last.res = "panic"


-----------------------------------------------------------------------------
(* package wireclient: Conn.Request.  nextRequestID is the process-wide    *)
(* counter; every connection has its own socket.  A Request is two steps,  *)
(* between which Requests on other connections may run: the header is      *)
(* built and written, then the response is read and compared.              *)

NumConns == 2
MaxRequests == 3

Conns == 1..NumConns

NoHeader == [MessageLength |-> 0, RequestID |-> 0, ResponseTo |-> 0, OpCode |-> 0]

\* The opcode Request sets for the body type; 0 for the default branch, which
\* returns the "unsupported body type" error.
Request_opCode(body) ==
    CASE body.type = "OpMsg"   -> OpCodeMsg
      [] body.type = "OpQuery" -> OpCodeQuery
      [] OTHER                 -> 0

\* The header Request builds for the marshalled body b and the counter value id.
Request_header(body, b, id) ==
    [MessageLength |-> Len(b) + MsgHeaderLen, RequestID |-> id,
     ResponseTo |-> 0, OpCode |-> Request_opCode(body)]

\* Request without the ResponseTo comparison.
Request_resultUnchecked(header, resHeader) ==
    [got |-> TRUE, resHeader |-> resHeader, err |-> "nil"]

\* What Request returns once Read returned resHeader without an error: the
\* response, and an error when its ResponseTo is not the request's RequestID.
Request_result(header, resHeader) ==
    [got |-> TRUE, resHeader |-> resHeader,
     err |-> IF resHeader.ResponseTo # header.RequestID THEN "response_to" ELSE "nil"]

\* What Request returns with nil header and body: the error alone.
Request_failed(err) == [got |-> FALSE, resHeader |-> NoHeader, err |-> err]

NoResult == [got |-> FALSE, resHeader |-> NoHeader, err |-> "none"]

\* Bodies a caller passes: an OpMsg, an OpQuery and an OpReply.
RequestBodies ==
    {OpMsg_UnmarshalBinaryNocopy(PutUint32(0) \o <<0>> \o BoolDoc, FALSE).msg,
     OpQuery_UnmarshalBinaryNocopy(
         PutUint32(4) \o <<97, 0>> \o PutUint32(0) \o PutUint32(-1) \o EmptyDoc,
         FALSE).msg,
     OpReply_UnmarshalBinaryNocopy(
         PutUint32(8) \o <<1, 0, 0, 0, 2, 0, 0, 0>> \o PutUint32(-3) \o PutUint32(0),
         FALSE).msg}

\* Headers of the responses the peer may send.
ResponseHeaders ==
    {[MessageLength |-> 36, RequestID |-> 100, ResponseTo |-> r, OpCode |-> op] :
        r \in 0..MaxRequests, op \in {OpCodeMsg, OpCodeReply}}

InitConn ==
    /\ conn = [nextRequestID |-> 0,
               c |-> [k \in Conns |-> [pc |-> "idle", header |-> NoHeader, res |-> NoResult]]]
    /\ ping = None /\ login = None
    /\ IdleMsg /\ IdleBson /\ IdleDoc

\* A counter that hands out its value without adding to it.
nextRequestID_Load(counter) == counter

\* nextRequestID.Add(1): one atomic step on the process-wide counter; the
\* new value is returned.
nextRequestID_Add(counter) == counter + 1

\* Request up to and including c.Write: MarshalBinary, nextRequestID.Add(1),
\* the opcode switch, the write, which may fail.
RequestSend(k) ==
    /\ conn.c[k].pc # "sent"
    /\ conn.nextRequestID < MaxRequests
    /\ \E body \in RequestBodies, writeOK \in BOOLEAN :
          LET b      == Body_MarshalBinary(body, FALSE)
              id     == nextRequestID_Add(conn.nextRequestID)
              header == Request_header(body, b.b, id)
          IN  IF b.res # "ok"
              THEN conn' = [conn EXCEPT !.c[k] = [pc |-> "done", header |-> NoHeader,
                                                  res |-> Request_failed("marshal")]]
              ELSE IF header.OpCode = 0
              THEN conn' = [conn EXCEPT !.nextRequestID = id,
                                !.c[k] = [pc |-> "done", header |-> header,
                                          res |-> Request_failed("unsupported body type")]]
              ELSE IF ~writeOK
              THEN conn' = [conn EXCEPT !.nextRequestID = id,
                                !.c[k] = [pc |-> "done", header |-> header,
                                          res |-> Request_failed("write")]]
              ELSE conn' = [conn EXCEPT !.nextRequestID = id,
                                !.c[k] = [pc |-> "sent", header |-> header,
                                          res |-> NoResult]]
    /\ UNCHANGED <<msgVars, bsonVars, docVars, clientVars>>

\* Request from c.Read on: a read error, or a response and the comparison.
RequestReceive(k) ==
    /\ conn.c[k].pc = "sent"
    /\ \/ conn' = [conn EXCEPT !.c[k].pc = "done", !.c[k].res = Request_failed("read")]
       \/ \E resHeader \in ResponseHeaders :
              conn' = [conn EXCEPT !.c[k].pc = "done",
                                   !.c[k].res = Request_result(conn.c[k].header, resHeader)]
    /\ UNCHANGED <<msgVars, bsonVars, docVars, clientVars>>

NextConn == \E k \in Conns : RequestSend(k) \/ RequestReceive(k)

SpecConn == InitConn /\ [][NextConn]_vars

\* C10: a Request that returned a nil error read a response whose ResponseTo
\* is the RequestID of the header it wrote; any other ResponseTo gives an error.
C10_NilErrorOnlyOnMatchingResponse ==
    \A k \in Conns :
        (conn.c[k].pc = "done" /\ conn.c[k].res.err = "nil")
            => /\ conn.c[k].res.got
               /\ conn.c[k].res.resHeader.ResponseTo = conn.c[k].header.RequestID

\* Two connections have finished a Request: one got its own response and a
\* nil error, the other read a response to the first one's request and got
\* the mismatch error.
C10_Witness ==
    \E k \in Conns, j \in Conns :
        /\ k # j
        /\ conn.c[k].pc = "done" /\ conn.c[k].res.err = "nil"
        /\ conn.c[j].pc = "done" /\ conn.c[j].res.err = "response_to"
        /\ conn.c[j].res.resHeader.ResponseTo = conn.c[k].header.RequestID


\* C11: for every valid BSON value, Size is defined and is the number of
\* bytes its encoding has.
C11_SizeIsEncodedLength ==
    (sz # None /\ validBSONType(sz.v))
        => /\ sz.size # -1
           /\ sz.enc.res = "ok"
           /\ Len(sz.enc.b) = sz.size

\* The bytes decode as a document in the given mode, and some field of that
\* document is not named by the decimal index of its position.
WronglyIndexed(b, mode) ==
    LET d == RawDocument_decode(b, mode)
    IN  /\ d.err = ""
        /\ \E i \in 1..Len(d.v.fields) : d.v.fields[i].name # Itoa(i - 1)

\* C21: decoding as an array bytes in which some field name is not the
\* decimal index of its position fails with an error that wraps
\* ErrDecodeInvalidInput, in shallow and in deep mode.
C21_WrongIndexIsInvalidInput ==
    (adec # None /\ WronglyIndexed(raw, adec.mode))
        => adec.r.err = ErrDecodeInvalidInput

\* The decoded value v is, or holds at any depth, the value Undefined, the
\* only value a field with an unsupported tag can decode to.
RECURSIVE YieldsUndefined(_)
YieldsUndefined(v) ==
    CASE v.t = "UndefinedType" -> TRUE
      [] v.t = "Document" -> \E i \in 1..Len(v.fields) : YieldsUndefined(v.fields[i].value)
      [] v.t = "Array"    -> \E i \in 1..Len(v.elements) : YieldsUndefined(v.elements[i])
      [] OTHER -> FALSE

\* C22: a field whose tag is 0x06, 0x0C, 0x0D, 0x0E, 0x0F, 0xFF or 0x7F
\* makes the decode fail with ErrDecodeInvalidInput, and no decode yields a
\* value for such a field.
C22_UnsupportedTagsRejected ==
    dec # None =>
        /\ (\E tg \in UnsupportedTags : raw = TagDoc(tg))
               => dec.r.err = ErrDecodeInvalidInput
        /\ dec.r.err = "" => ~YieldsUndefined(dec.r.v)

-----------------------------------------------------------------------------
(* package wirebson: Equal.  The result is "true", "false" or "panic".     *)

AsBool(c) == IF c THEN "true" ELSE "false"

\* The bits are those of +0 or -0.
IsZeroBits(bits) == bits[8] % 128 = 0 /\ \A k \in 1..7 : bits[k] = 0

\* Go's == on two float64: NaN equals nothing, the two zeros are equal.
FloatValuesEqual(b1, b2) ==
    IF IsNaNBits(b1) \/ IsNaNBits(b2) THEN FALSE
    ELSE IF IsZeroBits(b1) /\ IsZeroBits(b2) THEN TRUE
    ELSE b1 = b2

\* The scalar types whose Go values are compared with == on all their bits.
BitsTypes == {"ObjectID", "Timestamp", "int64", "Decimal128", "Time"}

\* equalScalars after the float64 case.
equalOtherScalars(v1, v2) ==
    CASE v1.t = "string" -> AsBool(v2.t = "string" /\ v1.v = v2.v)
      [] v1.t = "Binary" ->
            AsBool(v2.t = "Binary" /\ v1.Subtype = v2.Subtype /\ v1.B = v2.B)
      [] v1.t \in BitsTypes -> AsBool(v2.t = v1.t /\ v1.bits = v2.bits)
      [] v1.t = "bool"   -> AsBool(v2.t = "bool" /\ v1.v = v2.v)
      [] v1.t = "NullType" -> AsBool(v2.t = "NullType")
      [] v1.t = "Regex"  ->
            AsBool(v2.t = "Regex" /\ v1.Pattern = v2.Pattern /\ v1.Options = v2.Options)
      [] v1.t = "int32"  -> AsBool(v2.t = "int32" /\ v1.v = v2.v)
      [] OTHER -> "panic"

\* equalScalars that compares float64 with ==.
equalScalarsByValue(v1, v2) ==
    IF v1.t = "float64"
    THEN AsBool(v2.t = "float64" /\ FloatValuesEqual(v1.bits, v2.bits))
    ELSE equalOtherScalars(v1, v2)

\* equalScalars: float64 by math.Float64bits; the case UndefinedType is
\* commented out, so Undefined as v1 reaches the default branch.
equalScalars(v1, v2) ==
    IF v1.t = "float64"
    THEN AsBool(v2.t = "float64" /\ v1.bits = v2.bits)
    ELSE equalOtherScalars(v1, v2)

\* d.Decode() of an AnyDocument / a.Decode() of an AnyArray: the decoded
\* container itself, or the shallow decode of the raw bytes.
AnyDocument_Decode(d) ==
    IF d.t = "RawDocument" THEN Decode(d.b) ELSE [err |-> "", v |-> d]

AnyArray_Decode(a) ==
    IF a.t = "RawArray" THEN RawArray_decode(a.b, decodeShallow) ELSE [err |-> "", v |-> a]

RECURSIVE Equal(_, _), equalPairs(_, _, _)

\* The rest of the loop once the values at position i were compared.
equalPairsAfter(e, f1, f2, i) ==
    IF e # "true" THEN e ELSE equalPairs(f1, f2, i + 1)

\* The loop of equalDocuments over the pairs of fields from position i on.
equalPairs(f1, f2, i) ==
    IF i > Len(f1) THEN "true"
    ELSE IF f1[i].name # f2[i].name THEN "false"
    ELSE equalPairsAfter(Equal(f1[i].value, f2[i].value), f1, f2, i)

\* equalDocuments from the two Decode calls on.
equalDecodedDocuments(doc1, doc2) ==
    IF doc1.err # "" \/ doc2.err # "" THEN "panic"
    ELSE IF Len(doc1.v.fields) # Len(doc2.v.fields) THEN "false"
    ELSE equalPairs(doc1.v.fields, doc2.v.fields, 1)

equalDocuments(d1, d2) ==
    IF d1.t = "RawDocument" /\ d2.t = "RawDocument" THEN AsBool(d1.b = d2.b)
    ELSE equalDecodedDocuments(AnyDocument_Decode(d1), AnyDocument_Decode(d2))

\* equalArrays from the two Decode calls on; the values are paired by
\* position.
equalDecodedArrays(arr1, arr2) ==
    IF arr1.err # "" \/ arr2.err # "" THEN "panic"
    ELSE IF Len(arr1.v.elements) # Len(arr2.v.elements) THEN "false"
    ELSE equalPairs(IndexedFields(arr1.v.elements), IndexedFields(arr2.v.elements), 1)

equalArrays(a1, a2) ==
    IF a1.t = "RawArray" /\ a2.t = "RawArray" THEN AsBool(a1.b = a2.b)
    ELSE equalDecodedArrays(AnyArray_Decode(a1), AnyArray_Decode(a2))

Equal(v1, v2) ==
    IF ~validBSONType(v1) \/ ~validBSONType(v2) THEN "panic"
    ELSE IF v1.t \in {"Document", "RawDocument"}
    THEN IF v2.t \in {"Document", "RawDocument"} THEN equalDocuments(v1, v2) ELSE "false"
    ELSE IF v1.t \in {"Array", "RawArray"}
    THEN IF v2.t \in {"Array", "RawArray"} THEN equalArrays(v1, v2) ELSE "false"
    ELSE equalScalars(v1, v2)

-----------------------------------------------------------------------------
(* The comparison scenario: Equal is called on two values.                 *)

Float(bits) == [t |-> "float64", bits |-> bits]

PosZero == Float(<<0, 0, 0, 0, 0, 0, 0, 0>>)
NegZero == Float(<<0, 0, 0, 0, 0, 0, 0, 128>>)
\* math.NaN() and math.Float64frombits(0x7ff8000f000f0001).
NaN1    == Float(<<1, 0, 0, 0, 0, 0, 248, 127>>)
NaN2    == Float(<<1, 0, 15, 0, 15, 0, 248, 127>>)
PosInf  == Float(<<0, 0, 0, 0, 0, 0, 240, 127>>)
NegInf  == Float(<<0, 0, 0, 0, 0, 0, 240, 255>>)
One     == Float(<<0, 0, 0, 0, 0, 0, 240, 63>>)

DocOf(name, value) == [t |-> "Document", fields |-> <<[name |-> name, value |-> value]>>]

\* The values Equal is called on: the floats above, one value of the other
\* scalar types, Undefined, decoded and raw documents and arrays (equal,
\* different, nested, a raw document that does not decode), and a Go value
\* that is no BSON type.
EqualArgs ==
    << PosZero, NegZero, NaN1, NaN2, PosInf, NegInf, One,
       [t |-> "int32", v |-> 5],
       [t |-> "int64", bits |-> <<5, 0, 0, 0, 0, 0, 0, 0>>],
       [t |-> "string", v |-> <<120>>],
       [t |-> "bool", v |-> TRUE],
       [t |-> "NullType"],
       [t |-> "UndefinedType"],
       [t |-> "Binary", B |-> <<42>>, Subtype |-> 128],
       [t |-> "Regex", Pattern |-> <<97>>, Options |-> <<105>>],
       [t |-> "Time", bits |-> <<1, 0, 0, 0, 0, 0, 0, 0>>],
       DocOf(<<102>>, [t |-> "bool", v |-> TRUE]),
       [t |-> "RawDocument", b |-> BoolDoc],
       [t |-> "RawDocument", b |-> BadTagDoc],
       DocOf(<<102>>, NaN1),
       DocOf(<<102>>, NaN2),
       DocOf(<<102>>, [t |-> "UndefinedType"]),
       DocOf(<<100>>, [t |-> "RawDocument", b |-> BoolDoc]),
       DocOf(<<100>>, DocOf(<<102>>, [t |-> "bool", v |-> TRUE])),
       [t |-> "Array", elements |-> <<[t |-> "bool", v |-> TRUE]>>],
       [t |-> "RawArray", b |-> <<9, 0, 0, 0, 8, 48, 0, 1, 0>>],
       [t |-> "RawArray", b |-> <<9, 0, 0, 0, 8, 49, 0, 1, 0>>],
       [t |-> "Array", elements |-> <<NegZero, PosZero>>],
       [t |-> "Array", elements |-> <<>>],
       [t |-> "invalid"] >>

InitEq ==
    /\ cmp = None
    /\ raw = <<>> /\ dec = None /\ enc = None /\ sz = None /\ found = None /\ adec = None
    /\ IdleMsg /\ IdleDoc /\ IdleConn

\* The record of one call.
Compared(v1, v2) == [v1 |-> v1, v2 |-> v2, res |-> Equal(v1, v2)]

\* Equal(v1, v2).
EqualStep ==
    /\ \E i, j \in 1..Len(EqualArgs) : cmp' = Compared(EqualArgs[i], EqualArgs[j])
    /\ UNCHANGED <<raw, dec, enc, sz, found, adec, msgVars, docVars, conn, clientVars>>

NextEq == EqualStep

SpecEq == InitEq /\ [][NextEq]_vars

BothFloats == cmp # None /\ cmp.v1.t = "float64" /\ cmp.v2.t = "float64"

C24_AllNaNsEqual ==
    (BothFloats /\ IsNaNBits(cmp.v1.bits) /\ IsNaNBits(cmp.v2.bits))
        => cmp.res = "true"

\* Every raw document or array in v, at any depth, decodes.
RECURSIVE RawsDecode(_)
RawsDecode(v) ==
    CASE v.t = "RawDocument" -> DecodeDeep(v.b).err = ""
      [] v.t = "RawArray"    -> RawArray_decode(v.b, decodeDeep).err = ""
      [] v.t = "Document"    -> \A i \in 1..Len(v.fields) : RawsDecode(v.fields[i].value)
      [] v.t = "Array"       -> \A i \in 1..Len(v.elements) : RawsDecode(v.elements[i])
      [] OTHER -> TRUE

\* C25: Equal returns a boolean, without a panic, whenever both arguments
\* are valid BSON values and every raw composite inside them decodes.
C25_EqualNeverPanicsOnValid ==
    (/\ cmp # None
     /\ validBSONType(cmp.v1) /\ validBSONType(cmp.v2)
     /\ RawsDecode(cmp.v1) /\ RawsDecode(cmp.v2))
        => cmp.res \in {"true", "false"}

\* A step that is a call of Remove on a Document that is not frozen.
RemoveStep == last'.op = "Remove" /\ ~doc.frozen /\ hist.target = "doc"

\* The outcome of such a step: with i the first position of a field called
\* name, the fields before i are unchanged, the fields after i have moved up
\* by one with their names and values, and nothing else changed; with no
\* such field the Document is unchanged.
RemovedFirstOnly ==
    LET i == FirstIndex(doc.fields, last'.name)
    IN  /\ last'.res = "nil"
        /\ doc'.frozen = doc.frozen
        /\ IF i = 0 THEN doc'.fields = doc.fields
           ELSE /\ Len(doc'.fields) = Len(doc.fields) - 1
                /\ \A k \in 1..Len(doc'.fields) :
                      doc'.fields[k] = IF k < i THEN doc.fields[k] ELSE doc.fields[k + 1]

RemoveKeepsTheRest == RemoveStep => RemovedFirstOnly

TookRequestID(k) ==
    /\ conn.c[k].pc # "sent"
    /\ conn'.c[k] # conn.c[k]
    /\ conn'.c[k].header # NoHeader

\* Every RequestID in use came from the counter, and a Request that takes
\* one takes the counter's next value, which is above every RequestID taken
\* before, its own connection's included.
RequestIDsFresh ==
    /\ \A j \in Conns : conn.c[j].header.RequestID <= conn.nextRequestID
    /\ conn'.nextRequestID >= conn.nextRequestID
    /\ \A k \in Conns :
          TookRequestID(k) =>
              /\ conn'.nextRequestID = conn.nextRequestID + 1
              /\ conn'.c[k].header.RequestID = conn'.nextRequestID
              /\ \A j \in Conns :
                    conn.c[j].header.RequestID < conn'.c[k].header.RequestID

-----------------------------------------------------------------------------
(* package wireclient: commands over Request.  A command is an OpMsg sent  *)
(* with Request; the reply is asserted to be an OpMsg, DocumentDeep is     *)
(* called on it, and its field "ok" is compared with 1.0.                 *)

NameOk      == <<111, 107>>
NamePayload == <<112, 97, 121, 108, 111, 97, 100>>
NameDone    == <<100, 111, 110, 101>>

\* Encoded fields of a reply: "ok" as float64 1.0 or 0.0 or as int32 1,
\* "payload" as a Binary of one byte v, "done" as a bool.
FieldOkOne  == <<1>> \o NameOk \o <<0, 0, 0, 0, 0, 0, 0, 240, 63>>
FieldOkZero == <<1>> \o NameOk \o <<0, 0, 0, 0, 0, 0, 0, 0, 0>>
FieldOkInt  == <<16>> \o NameOk \o <<0, 1, 0, 0, 0>>
FieldPayload(v) == <<5>> \o NamePayload \o <<0, 1, 0, 0, 0, 0, v>>
FieldDone(v)    == <<8>> \o NameDone \o <<0, v>>

\* The document with the encoded fields fs.
DocBytes(fs) == PutUint32(5 + Len(fs)) \o fs \o <<0>>

\* The OpMsg with one kind-0 section holding the document d, as it is read
\* from the connection.
ReplyMsg(d) ==
    [type |-> "OpMsg", Flags |-> 0, checksum |-> 0,
     sections |-> <<[kind |-> 0, identifier |-> <<>>, documents |-> <<d>>]>>]

\* An OP_REPLY body, which a server may send instead of an OP_MSG.
ReplyOpReply ==
    [type |-> "OpReply", Flags |-> 8, CursorID |-> <<1, 2>>, StartingFrom |-> -3,
     document |-> <<>>]

\* Document.Get: the value of the first field called name, or nil.
Document_Get(d, name) ==
    IF FirstIndex(d.fields, name) = 0 THEN [t |-> "nil"]
    ELSE d.fields[FirstIndex(d.fields, name)].value

\* ok == 1.0 for the interface value ok: a float64 with the value 1.
OkIsOne(v) == v.t = "float64" /\ v.bits = <<0, 0, 0, 0, 0, 0, 240, 63>>

\* The OpMsg assertion and DocumentDeep after a Request that returned err:
\* the error of the Request, a panic of the type assertion on another body
\* type, or what DocumentDeep returns.
Reply_DocumentDeep(err, resBody) ==
    IF err # "nil" THEN [res |-> "error"]
    ELSE IF resBody.type # "OpMsg" THEN [res |-> "panic"]
    ELSE OpMsg_DocumentDeep(resBody)

\* The rest of Ping and of checkAuth once the reply was decoded.
Command_okCheck(r) ==
    IF r.res # "ok" THEN r.res
    ELSE IF ~OkIsOne(Document_Get(r.doc, NameOk)) THEN "error"
    ELSE "nil"

\* A Ping that does not look at the reply's "ok".
Conn_PingAnyReply(err, resBody) == IF err # "nil" THEN "error" ELSE "nil"

\* Conn.Ping from the return of Request on: "nil", "error" or "panic".
Conn_Ping(err, resBody) == Command_okCheck(Reply_DocumentDeep(err, resBody))

\* ConnectPing at the head of its loop when it gives up after one attempt.
ConnectPing_headOnce(p) ==
    IF p.ctx = "done" \/ p.attempts > 0
    THEN [p EXCEPT !.pc = "returned", !.res = 0]
    ELSE [p EXCEPT !.pc = "connect"]

\* ConnectPing at the head of its loop: ctx.Err() == nil enters the body,
\* anything else leaves the loop and returns nil (0).
ConnectPing_head(p) ==
    IF p.ctx = "done"
    THEN [p EXCEPT !.pc = "returned", !.res = 0]
    ELSE [p EXCEPT !.pc = "connect"]

\* ConnectPing after conn.Ping returned r on the connection p.conn: the
\* connection is returned, or closed before the sleep; a panic of Ping ends
\* the call.
ConnectPing_afterPing(p, r) ==
    CASE r = "nil"   -> [p EXCEPT !.pc = "returned", !.res = p.conn, !.pinged = TRUE]
      [] r = "error" -> [p EXCEPT !.pc = "sleep", !.closed = TRUE]
      [] OTHER       -> [p EXCEPT !.pc = "panicked"]

-----------------------------------------------------------------------------
(* The ConnectPing scenario: one call of ConnectPing, a context that may   *)
(* be cancelled at any moment, a network that lets Connect, Write and Read *)
(* fail, and a server that answers the ping with any of PingReplies; got   *)
(* is the reply read last and the ResponseTo of its header.                *)

MaxAttempts == 2

\* Replies to the ping: ok 1.0, ok 0.0, ok as int32 1, no ok at all, a
\* document that does not decode, and an OP_REPLY.
ReplyOkOne == ReplyMsg(DocBytes(FieldOkOne))

PingReplies ==
    { ReplyOkOne, ReplyMsg(DocBytes(FieldOkZero)),
      ReplyMsg(DocBytes(FieldOkInt)), ReplyMsg(EmptyDoc), ReplyMsg(BadTagDoc),
      ReplyOpReply }

\* wire.MustOpMsg("ping", int32(1), ...), cut down to one field.
PingCmd == ReplyMsg(DocBytes(<<16, 112, 0, 1, 0, 0, 0>>))

PingCmdHeader(id) == Request_header(PingCmd, Body_MarshalBinary(PingCmd, FALSE).b, id)

InitPing ==
    /\ ping = [ctx |-> "live", pc |-> "loop", attempts |-> 0, conn |-> 0,
               closed |-> FALSE, pinged |-> FALSE, nextRequestID |-> 0,
               header |-> NoHeader, got |-> [body |-> None, to |-> 0], res |-> -1]
    /\ conn = None /\ login = None
    /\ IdleMsg /\ IdleBson /\ IdleDoc

\* The deadline passes or the caller cancels.
CtxDone ==
    /\ ping.ctx = "live" /\ ping.pc \notin {"returned", "panicked"}
    /\ ping' = [ping EXCEPT !.ctx = "done"]
    /\ UNCHANGED <<msgVars, bsonVars, docVars, conn, login>>

\* for ctx.Err() == nil { ... } return nil
PingLoop ==
    /\ ping.pc = "loop"
    /\ ping' = ConnectPing_head(ping)
    /\ UNCHANGED <<msgVars, bsonVars, docVars, conn, login>>

\* conn, err = Connect(ctx, uri, l)
PingConnect ==
    /\ ping.pc = "connect" /\ ping.attempts < MaxAttempts
    /\ \/ ping' = [ping EXCEPT !.attempts = @ + 1, !.conn = ping.attempts + 1,
                               !.closed = FALSE, !.pinged = FALSE, !.pc = "request"]
       \/ ping' = [ping EXCEPT !.attempts = @ + 1, !.pc = "sleep"]
    /\ UNCHANGED <<msgVars, bsonVars, docVars, conn, login>>

\* conn.Ping(ctx) up to the Write of Request.
PingSend ==
    /\ ping.pc = "request"
    /\ \E writeOK \in BOOLEAN :
          LET id == nextRequestID_Add(ping.nextRequestID)
              p  == [ping EXCEPT !.nextRequestID = id, !.header = PingCmdHeader(id)]
          IN  ping' = IF writeOK THEN [p EXCEPT !.pc = "response"]
                      ELSE ConnectPing_afterPing(p, "error")
    /\ UNCHANGED <<msgVars, bsonVars, docVars, conn, login>>

\* conn.Ping(ctx) from the Read of Request on, and what ConnectPing does
\* with its result.
PingReceive ==
    /\ ping.pc = "response"
    /\ \/ ping' = ConnectPing_afterPing(ping, "error")
       \/ \E resBody \in PingReplies, to \in {ping.header.RequestID, 0} :
             ping' = ConnectPing_afterPing(
                        [ping EXCEPT !.got = [body |-> resBody, to |-> to]],
                        Conn_Ping(Request_result(ping.header,
                                      [NoHeader EXCEPT !.ResponseTo = to]).err,
                                  resBody))
    /\ UNCHANGED <<msgVars, bsonVars, docVars, conn, login>>

\* sleep(ctx, time.Second): the second passes or the context is done.
PingSleep ==
    /\ ping.pc = "sleep"
    /\ ping' = [ping EXCEPT !.pc = "loop"]
    /\ UNCHANGED <<msgVars, bsonVars, docVars, conn, login>>

NextPing == CtxDone \/ PingLoop \/ PingConnect \/ PingSend \/ PingReceive \/ PingSleep

SpecPing == InitPing /\ [][NextPing]_vars

\* What ConnectPing has returned is right: nil only with a context that is
\* done, a connection only when it is the one just pinged and not closed,
\* and the server's reply to that ping was an OpMsg with ok 1.0,
\* sent in response to the ping's RequestID.
ConnectPingReturn ==
    ping.pc = "returned" =>
        /\ ping.res = 0 => ping.ctx = "done"
        /\ ping.res # 0 =>
              /\ ping.res = ping.conn /\ ping.pinged /\ ~ping.closed
              /\ ping.got.body = ReplyOkOne /\ ping.got.to = ping.header.RequestID

\* A step of ConnectPing with a live context never returns nil, and after a
\* failed Connect or Ping the next thing it does with a live context is
\* another Connect.
ConnectPingRetries ==
    /\ (ping.ctx = "live" /\ ping'.pc = "returned" /\ ping.pc # "returned")
           => ping'.res # 0
    /\ (ping.pc = "loop" /\ ping.ctx = "live" /\ ping'.pc # "loop")
           => ping'.pc = "connect"
    /\ (ping.pc = "sleep" /\ ping'.pc # "sleep") => ping'.pc = "loop"

\* C27: ConnectPing returns nil only when the context has expired or been
\* cancelled; while the context is live it keeps retrying Connect and Ping;
\* every connection it returns has completed a successful Ping.
C27_ConnectPingNilOnlyOnExpiry == []ConnectPingReturn /\ [][ConnectPingRetries]_vars

\* ConnectPing returned a connection on its second attempt, after a first
\* attempt had failed.
C27_Witness ==
    /\ ping # None /\ ping.pc = "returned"
    /\ ping.res = 2 /\ ping.pinged /\ ping.ctx = "live"

\* ConnectPing returned nil after a failed attempt, the context being done.
C27_WitnessNil ==
    /\ ping # None /\ ping.pc = "returned" /\ ping.res = 0 /\ ping.attempts > 0

-----------------------------------------------------------------------------
(* package wireclient: loginScramSHA256 with skipEmptyExchange.  l holds   *)
(* the locals of the call: step, the client conversation conv as [done,    *)
(* valid], the commands sent and the replies read so far, the step at      *)
(* which the server reported done, what checkAuth returned, and the result. *)

\* steps, with skipEmptyExchange: one saslStart, one saslContinue.
LoginSteps == 2

\* return err / return nil / a panic: the call is over.
Login_return(l, res) == [l EXCEPT !.pc = "returned", !.res = res]

\* What the loop body finds in the decoded reply r: "error" (Request or
\* DocumentDeep failed, or ok is not 1.0), "panic" (the reply is no OpMsg,
\* payload is no Binary, done is no bool), "done" or "more".
Login_replyVerdict(r) ==
    IF r.res # "ok" THEN r.res
    ELSE IF ~OkIsOne(Document_Get(r.doc, NameOk)) THEN "error"
    ELSE IF Document_Get(r.doc, NamePayload).t # "Binary" THEN "panic"
    ELSE IF Document_Get(r.doc, NameDone).t # "bool" THEN "panic"
    ELSE IF Document_Get(r.doc, NameDone).v THEN "done" ELSE "more"

\* The branch for done = true that accepts it at any step.
Login_whenDoneAnyStep(l, stepOK, convAfter) ==
    IF ~stepOK THEN Login_return([l EXCEPT !.conv = convAfter, !.doneAt = l.step], "error")
    ELSE IF ~convAfter.done \/ ~convAfter.valid
    THEN Login_return([l EXCEPT !.conv = convAfter, !.doneAt = l.step], "error")
    ELSE [l EXCEPT !.conv = convAfter, !.doneAt = l.step, !.pc = "checkAuth"]

\* if res.Get("done").(bool) { ... }: done at another step than 2 is an
\* error; else conv.Step(payload), which may fail and leaves the
\* conversation as convAfter; then Done and Valid are required, and
\* checkAuth follows.
Login_whenDone(l, stepOK, convAfter) ==
    IF l.step # 2 THEN Login_return([l EXCEPT !.doneAt = l.step], "error")
    ELSE IF ~stepOK THEN Login_return([l EXCEPT !.conv = convAfter, !.doneAt = 2], "error")
    ELSE IF ~convAfter.done \/ ~convAfter.valid
    THEN Login_return([l EXCEPT !.conv = convAfter, !.doneAt = 2], "error")
    ELSE [l EXCEPT !.conv = convAfter, !.doneAt = 2, !.pc = "checkAuth"]

\* The rest of the loop body when done = false: conv.Step(payload), the next
\* command is saslContinue, step++; past the last step the loop ends and
\* "too many steps" is returned.
Login_whenMore(l, stepOK, convAfter) ==
    IF ~stepOK THEN Login_return([l EXCEPT !.conv = convAfter], "error")
    ELSE IF l.step + 1 > LoginSteps
    THEN Login_return([l EXCEPT !.conv = convAfter, !.step = l.step + 1], "error")
    ELSE [l EXCEPT !.conv = convAfter, !.step = l.step + 1, !.pc = "request"]

\* The loop body from the return of Request on.
Login_afterReply(l, verdict, stepOK, convAfter) ==
    CASE verdict = "done" -> Login_whenDone(l, stepOK, convAfter)
      [] verdict = "more" -> Login_whenMore(l, stepOK, convAfter)
      [] OTHER            -> Login_return(l, verdict)

\* checkAuth: listDatabases, then the same reading of the reply as Ping.
Conn_checkAuth(err, resBody) == Command_okCheck(Reply_DocumentDeep(err, resBody))

-----------------------------------------------------------------------------
(* The login scenario: one call of loginScramSHA256 against a server that  *)
(* answers each command with any of LoginReplies and a network that may    *)
(* fail.  The SCRAM conversation belongs to a library: each conv.Step may  *)
(* fail and leaves Done() and Valid() at any values.                       *)

\* Replies to saslStart / saslContinue: not done and done, each with two
\* payloads, done with ok as int32, ok 0.0, no payload, no done, an
\* undecodable document, an OP_REPLY.
ReplyMore == ReplyMsg(DocBytes(FieldOkOne \o FieldPayload(1) \o FieldDone(0)))
ReplyDone == ReplyMsg(DocBytes(FieldOkOne \o FieldPayload(1) \o FieldDone(1)))

LoginReplies ==
    { ReplyMore, ReplyDone,
      ReplyMsg(DocBytes(FieldOkOne \o FieldPayload(0) \o FieldDone(0))),
      ReplyMsg(DocBytes(FieldOkOne \o FieldPayload(0) \o FieldDone(1))),
      ReplyMsg(DocBytes(FieldOkInt \o FieldPayload(1) \o FieldDone(1))),
      ReplyMsg(DocBytes(FieldOkZero)),
      ReplyMsg(DocBytes(FieldOkOne \o FieldDone(1))),
      ReplyMsg(DocBytes(FieldOkOne \o FieldPayload(1))),
      ReplyMsg(BadTagDoc),
      ReplyOpReply }

Convs == [done : BOOLEAN, valid : BOOLEAN]

InitLogin ==
    /\ login = [pc |-> "start", step |-> 1, conv |-> [done |-> FALSE, valid |-> FALSE],
                cmds |-> <<>>, replies |-> <<>>, nextRequestID |-> 0, doneAt |-> 0,
                auth |-> "none", res |-> "none"]
    /\ conn = None /\ ping = None
    /\ IdleMsg /\ IdleBson /\ IdleDoc

\* scram.SHA256.NewClient, NewConversation, conv.Step(""), the saslStart
\* command with its options.
LoginStart ==
    /\ login.pc = "start"
    /\ \/ login' = Login_return(login, "error")
       \/ login' = [login EXCEPT !.pc = "request"]
    /\ UNCHANGED <<msgVars, bsonVars, docVars, conn, ping>>

\* wire.NewOpMsg(cmd) and c.Request up to its Write.
LoginSend ==
    /\ login.pc = "request"
    /\ \E writeOK \in BOOLEAN :
          LET l == [login EXCEPT
                       !.nextRequestID = nextRequestID_Add(@),
                       !.cmds = Append(@, IF login.step = 1 THEN "saslStart"
                                          ELSE "saslContinue")]
          IN  login' = IF writeOK THEN [l EXCEPT !.pc = "response"]
                       ELSE Login_return(l, "error")
    /\ UNCHANGED <<msgVars, bsonVars, docVars, conn, ping>>

\* c.Request from its Read on, and the rest of the loop body.
LoginReceive ==
    /\ login.pc = "response"
    /\ \/ login' = Login_return(login, "error")
       \/ \E resBody \in LoginReplies, matches \in BOOLEAN, stepOK \in BOOLEAN,
             convAfter \in Convs :
             login' = Login_afterReply([login EXCEPT !.replies = Append(@, resBody)],
                          Login_replyVerdict(
                              Reply_DocumentDeep(IF matches THEN "nil" ELSE "response_to",
                                                 resBody)),
                          stepOK, convAfter)
    /\ UNCHANGED <<msgVars, bsonVars, docVars, conn, ping>>

\* return c.checkAuth(ctx)
LoginCheckAuth ==
    /\ login.pc = "checkAuth"
    /\ \E resBody \in PingReplies, err \in {"nil", "write", "read", "response_to"} :
          login' = [login EXCEPT
                       !.pc = "returned",
                       !.nextRequestID = nextRequestID_Add(@),
                       !.cmds = Append(@, "listDatabases"),
                       !.replies = IF err \in {"write", "read"} THEN @
                                   ELSE Append(@, resBody),
                       !.auth = Conn_checkAuth(err, resBody),
                       !.res = Conn_checkAuth(err, resBody)]
    /\ UNCHANGED <<msgVars, bsonVars, docVars, conn, ping>>

NextLogin == LoginStart \/ LoginSend \/ LoginReceive \/ LoginCheckAuth

SpecLogin == InitLogin /\ [][NextLogin]_vars

\* The SASL commands sent so far: at most saslStart and then saslContinue.
SaslRequests == SelectSeq(login.cmds, LAMBDA c : c # "listDatabases")

\* The reply is an OpMsg whose document has ok 1.0, a Binary payload and
\* the given value of done.
ReplySays(reply, done) ==
    /\ reply.type = "OpMsg"
    /\ OpMsg_DocumentDeep(reply).res = "ok"
    /\ OkIsOne(Document_Get(OpMsg_DocumentDeep(reply).doc, NameOk))
    /\ Document_Get(OpMsg_DocumentDeep(reply).doc, NamePayload).t = "Binary"
    /\ Document_Get(OpMsg_DocumentDeep(reply).doc, NameDone) = [t |-> "bool", v |-> done]

\* At most two SASL requests were sent, saslStart and then saslContinue, and
\* nil was returned only after the server reported done at step 2, the
\* conversation was Done and Valid, and checkAuth returned nil.
LoginNilJustified ==
    /\ SaslRequests \in {<<>>, <<"saslStart">>, <<"saslStart", "saslContinue">>}
    /\ login.res = "nil" =>
          /\ login.doneAt = 2 /\ login.step = 2
          /\ login.conv.done /\ login.conv.valid
          /\ login.auth = "nil"
          /\ login.cmds = <<"saslStart", "saslContinue", "listDatabases">>
          /\ Len(login.replies) = 3
          /\ ReplySays(login.replies[1], FALSE)
          /\ ReplySays(login.replies[2], TRUE)
          /\ login.replies[3] = ReplyOkOne

\* C29: the login sends at most two SASL requests, returns nil only if the
\* server reported done exactly at step 2, the conversation is Done and
\* Valid and checkAuth succeeded, and returns an error for every other
\* sequence of server replies.
C29_LoginNilOnlyAfterDoneAtStep2 ==
    /\ LoginNilJustified
    /\ login.pc = "returned" => login.res \in {"nil", "error"}

\* A step that is a call of SetSections which returned an error: only
\* SetSections changes the message once it was read or constructed.
SetSectionsFailed ==
    /\ pc \in {"read", "built"} /\ rd' # rd
    /\ rd'.set = "error"

SetSectionsFailedKeeps == SetSectionsFailed => rd'.body.sections = rd.body.sections

\* C30: when SetSections returns an error the sections of the message are
\* what they were before the call, whatever Debug and CheckNaNs are.
C30_FailedSetSectionsKeepsSections == [][SetSectionsFailedKeeps]_vars

====
